---- MODULE Spec2Model ----
(***************************************************************************)
(* Model of the experimentation and adaptive-decision subsystem:           *)
(* ExperimentOptimizer, ExperimentLifecycleManager, ModeController and the *)
(* InstagramAISystem coordinator with its arm-state repository.            *)
(*                                                                         *)
(* Representation.                                                         *)
(*  - A Python string is the sequence of the pieces str.split("::") gives; *)
(*    joining with "::" is sequence concatenation.                         *)
(*  - Rewards, reward sums and objective weights are in hundredths.        *)
(*  - epsilon_exploration, explore_coef, drawdown_24h, monetization_drift  *)
(*    and random() are in units of 10^-5; the other ModeInputs ratios are  *)
(*    in hundredths.                                                       *)
(***************************************************************************)
EXTENDS Integers, Sequences, FiniteSets, TLC

VARIABLES
    arms,          \* ExperimentOptimizer.arms: arm key -> ArmStats (defaultdict)
    epsilon,       \* OptimizationConfig.epsilon_exploration
    last,          \* the last optimizer / lifecycle / system call and what it returned
    imp,           \* the last one or two import_arm_state calls made in a row
    state_repo,    \* has the owner a state repository (FALSE: None)
    repo,          \* experiment_arm_states table: arm_key -> [pulls, reward_sum]
    briefs,        \* InstagramAISystem._brief_to_archetype
    mc,            \* ModeController.decide: the call's arguments and its ModeDecision
    opt_weights,   \* OptimizationConfig.objective_weights
    publisher,     \* InstagramPublisher: dry_run, max_retries, _seen_idempotency_keys
    client,        \* the publisher's client: idempotency key -> publish_post calls completed
    coord,         \* AdaptiveCycleCoordinator: flags and whether it has a decision_sink
    calls,         \* calls made so far on the updaters / the coordinator
    pipeline,      \* PipelineWorker: the pipeline_runs row of one run, the publisher's environment
    loop           \* run_loop: its configuration, cycle counter and the steps run so far

vars == <<arms, epsilon, last, imp, state_repo, repo, briefs, mc,
          opt_weights, publisher, client, coord, calls, pipeline, loop>>

\* No PipelineWorker / no run_loop in the specification at hand.
NoPipeline == [present |-> FALSE]
NoLoop == [present |-> FALSE]

(***************************************************************************)
(* Bounds of the model.                                                    *)
(***************************************************************************)
MaxPulls == 2      \* register_result is applied to an arm at most this often
MaxCands == 2      \* longest candidate sequence passed to choose_archetype
MaxPosts == 2      \* register_post_metrics calls made on the system's repository
MaxCycles == 1     \* run_creation_cycle calls made on one InstagramAISystem

(***************************************************************************)
(* Strings and arm keys.                                                   *)
(***************************************************************************)
NoKey == <<>>

\* ExperimentLifecycleManager._arm_key: f"exp::{experiment_id}::{variant}"
_arm_key(experiment_id, variant) == <<"exp">> \o experiment_id \o variant

ExperimentIds == {<<"e1">>}
\* Variant names: "a", and "x::b", a name that itself contains the separator.
Variants == {<<"a">>, <<"x", "b">>}

\* The arm keys the optimizer is called with in the optimizer specification.
ArmKeys == {_arm_key(e, v) : e \in ExperimentIds, v \in Variants}

RECURSIVE SeqsUpTo(_, _)
SeqsUpTo(S, n) ==
    IF n = 0 THEN {<<>>}
    ELSE LET shorter == SeqsUpTo(S, n - 1)
         IN  shorter \cup {Append(s, x) : s \in {t \in shorter : Len(t) = n - 1}, x \in S}

Range(s) == {s[i] : i \in 1..Len(s)}

(***************************************************************************)
(* ArmStats.                                                               *)
(***************************************************************************)
ArmStats(p, r) == [pulls |-> p, reward_sum |-> r]

\* defaultdict(ArmStats): reading a missing key gives ArmStats() ...
Stats(a, k) == IF k \in DOMAIN a THEN a[k] ELSE ArmStats(0, 0)

\* ... and inserts it.
Touch(a, k) == IF k \in DOMAIN a THEN a ELSE a @@ (k :> ArmStats(0, 0))

RECURSIVE TouchAll(_, _)
TouchAll(a, ks) == IF ks = <<>> THEN a ELSE TouchAll(Touch(a, Head(ks)), Tail(ks))

\* ArmStats.avg_reward, as the fraction num/den with den > 0.
avg_reward(s) ==
    IF s.pulls # 0 THEN [num |-> s.reward_sum, den |-> s.pulls]
                   ELSE [num |-> 0, den |-> 1]

\* x < y for two avg_reward values (pulls are never negative here).
AvgLess(x, y) == x.num * y.den < y.num * x.den

\* PublishedPostMetrics.score with weights.get(name, 0).
Weight(w, name) == IF name \in DOMAIN w THEN w[name] ELSE 0

score(m, w) ==
      m.views * Weight(w, "views")
    + m.likes * Weight(w, "likes")
    + m.comments * Weight(w, "comments")
    + m.shares * Weight(w, "shares")
    + m.saves * Weight(w, "saves")
    + m.avg_watch_time_seconds * Weight(w, "watch_time")

\* OptimizationConfig.objective_weights default, in hundredths.
objective_weights ==
    [views |-> 10, likes |-> 15, comments |-> 20, shares |-> 25, saves |-> 25,
     watch_time |-> 5]

Metrics(b, v, s) ==
    [views |-> v, likes |-> 0, comments |-> 0, shares |-> s,
     saves |-> 0, avg_watch_time_seconds |-> 0, brief_id |-> b]

(***************************************************************************)
(* ExperimentOptimizer.                                                    *)
(***************************************************************************)
\* unseen = [c for c in candidates if self.arms[c].pulls == 0]
unseen(a, candidates) ==
    LET IsUnseen(c) == Stats(a, c).pulls = 0
    IN  SelectSeq(candidates, IsUnseen)

\* max(candidates, key=lambda c: self.arms[c].avg_reward): the index of the first
\* candidate no later one beats (Python's max keeps the first maximum).
RECURSIVE MaxFrom(_, _, _, _)
MaxFrom(a, candidates, i, best) ==
    IF i > Len(candidates) THEN best
    ELSE MaxFrom(a, candidates, i + 1,
                 IF AvgLess(avg_reward(Stats(a, candidates[best])),
                            avg_reward(Stats(a, candidates[i])))
                 THEN i ELSE best)

\* A max that keeps the last maximum instead of the first.
max_avg_reward_last(a, candidates) ==
    candidates[CHOOSE i \in 1..Len(candidates) :
                   /\ \A j \in 1..Len(candidates) :
                          ~AvgLess(avg_reward(Stats(a, candidates[i])),
                                   avg_reward(Stats(a, candidates[j])))
                   /\ \A j \in (i + 1)..Len(candidates) :
                          AvgLess(avg_reward(Stats(a, candidates[j])),
                                  avg_reward(Stats(a, candidates[i])))]

max_avg_reward(a, candidates) == candidates[MaxFrom(a, candidates, 1, 1)]

Returned(c) == [chosen |-> c, error |-> "none"]
Raised(e) == [chosen |-> NoKey, error |-> e]

\* choice(seq): any element, IndexError on an empty sequence.
choice(s) == IF s = <<>> THEN {Raised("IndexError")} ELSE {Returned(c) : c \in Range(s)}

\* A choose_archetype that skips the cold-start preference.
choose_archetype_no_cold_start(a, eps, candidates, r) ==
    IF r < eps THEN choice(candidates)
    ELSE IF candidates = <<>> THEN {Raised("ValueError")}
    ELSE {Returned(max_avg_reward(a, candidates))}

\* A choose_archetype that answers an empty candidate sequence with a default.
choose_archetype_default_on_empty(a, eps, candidates, r) ==
    IF candidates = <<>> THEN {Returned(<<"default">>)}
    ELSE IF unseen(a, candidates) # <<>> THEN choice(unseen(a, candidates))
    ELSE IF r < eps THEN choice(candidates)
    ELSE {Returned(max_avg_reward(a, candidates))}

\* A choose_archetype that lets the exploration draw win over the cold start.
choose_archetype_explore_first(a, eps, candidates, r) ==
    IF r < eps THEN choice(candidates)
    ELSE IF unseen(a, candidates) # <<>> THEN choice(unseen(a, candidates))
    ELSE IF candidates = <<>> THEN {Raised("ValueError")}
    ELSE {Returned(max_avg_reward(a, candidates))}

\* ExperimentOptimizer.choose_archetype: the outcomes possible when random()
\* draws r.
choose_archetype(a, eps, candidates, r) ==
    IF unseen(a, candidates) # <<>> THEN choice(unseen(a, candidates))
    ELSE IF r < eps THEN choice(candidates)
    ELSE IF candidates = <<>> THEN {Raised("ValueError")}
    ELSE {Returned(max_avg_reward(a, candidates))}

\* A register_result that also counts a pull on every other known arm.
register_result_pulls_every_arm(a, archetype, reward) ==
    LET t == Touch(a, archetype)
    IN  [k \in DOMAIN t |->
            IF k = archetype THEN ArmStats(t[k].pulls + 1, t[k].reward_sum + reward)
            ELSE ArmStats(t[k].pulls + 1, t[k].reward_sum)]

\* A register_result that overwrites reward_sum instead of accumulating.
register_result_overwrite(a, archetype, reward) ==
    LET t == Touch(a, archetype)
    IN  [t EXCEPT ![archetype] = ArmStats(t[archetype].pulls + 1, reward)]

\* ExperimentOptimizer.register_result: the arm state after the call.
register_result(a, archetype, reward) ==
    LET t == Touch(a, archetype)
    IN  [t EXCEPT ![archetype] =
            ArmStats(t[archetype].pulls + 1, t[archetype].reward_sum + reward)]

\* ExperimentOptimizer.export_arm_state: a copy, entry by entry.
export_arm_state(a) == [k \in DOMAIN a |-> ArmStats(a[k].pulls, a[k].reward_sum)]

\* An import_arm_state that adds the imported statistics to the arm's own.
import_arm_state_accumulate(a, arm_state) ==
    [k \in DOMAIN a \cup DOMAIN arm_state |->
        IF k \in DOMAIN arm_state
        THEN ArmStats(Stats(a, k).pulls + arm_state[k].pulls,
                      Stats(a, k).reward_sum + arm_state[k].reward_sum)
        ELSE a[k]]

\* An import_arm_state that drops the arms the mapping does not name.
import_arm_state_replace_all(a, arm_state) ==
    [k \in DOMAIN arm_state |-> ArmStats(arm_state[k].pulls, arm_state[k].reward_sum)]

\* ExperimentOptimizer.import_arm_state: every name of arm_state gets its pulls
\* and reward_sum; the other arms are left alone.
import_arm_state(a, arm_state) ==
    [k \in DOMAIN a \cup DOMAIN arm_state |->
        IF k \in DOMAIN arm_state
        THEN ArmStats(arm_state[k].pulls, arm_state[k].reward_sum)
        ELSE a[k]]

(***************************************************************************)
(* Inputs of the optimizer specification.                                  *)
(***************************************************************************)
EpsValues == {0, 20000, 100000}
Draws == {0, 20000, 99999}
CandSeqs == SeqsUpTo(ArmKeys, MaxCands)
MetricsSet == {Metrics("b1", 1, 0), Metrics("b2", 0, 1)}
ImportStats == {ArmStats(0, 0), ArmStats(1, 10), ArmStats(MaxPulls, 50)}
ImportMaps == UNION {[D -> ImportStats] : D \in SUBSET ArmKeys}

NoArgs == [none |-> TRUE]
\* A call: its name, arguments, return value and the records it upserted.
CallW(op, args, ret, wrote) == [op |-> op, args |-> args, ret |-> ret, wrote |-> wrote]
Call(op, args, ret) == CallW(op, args, ret, <<>>)
NoCall == Call("init", NoArgs, NoArgs)
NoImport == [n |-> 0, base |-> <<>>, first |-> <<>>, second |-> <<>>]

ModeIdle == [pc |-> "idle"]

\* No InstagramPublisher / no AdaptiveCycleCoordinator has been constructed.
NoPublisher == [present |-> FALSE]
NoCoordinator == [present |-> FALSE]

(***************************************************************************)
(* The optimizer specification: one ExperimentOptimizer driven by any      *)
(* sequence of its four operations.                                        *)
(***************************************************************************)
Init ==
    /\ arms = <<>>
    /\ epsilon \in EpsValues
    /\ last = NoCall
    /\ imp = NoImport
    /\ state_repo = FALSE
    /\ repo = <<>>
    /\ briefs = <<>>
    /\ mc = ModeIdle
    /\ opt_weights = objective_weights
    /\ publisher = NoPublisher
    /\ client = <<>>
    /\ coord = NoCoordinator
    /\ calls = 0
    /\ pipeline = NoPipeline
    /\ loop = NoLoop

Choose ==
    \E candidates \in CandSeqs, r \in Draws :
        \E out \in choose_archetype(arms, epsilon, candidates, r) :
            /\ arms' = TouchAll(arms, candidates)
            /\ last' = Call("choose_archetype",
                            [r |-> r, candidates |-> candidates], out)
            /\ imp' = NoImport
            /\ UNCHANGED <<epsilon, state_repo, repo, briefs, mc,
                           opt_weights, publisher, client, coord, calls, pipeline, loop>>

Register ==
    \E k \in ArmKeys, m \in MetricsSet :
        /\ Stats(arms, k).pulls < MaxPulls
        /\ arms' = register_result(arms, k, score(m, objective_weights))
        /\ last' = Call("register_result", [archetype |-> k, metrics |-> m],
                        [reward |-> score(m, objective_weights)])
        /\ imp' = NoImport
        /\ UNCHANGED <<epsilon, state_repo, repo, briefs, mc,
                       opt_weights, publisher, client, coord, calls, pipeline, loop>>

Export ==
    /\ last' = Call("export_arm_state", NoArgs, [arm_state |-> export_arm_state(arms)])
    /\ imp' = NoImport
    /\ UNCHANGED <<arms, epsilon, state_repo, repo, briefs, mc,
                   opt_weights, publisher, client, coord, calls, pipeline, loop>>

Import ==
    \E m \in ImportMaps :
        /\ arms' = import_arm_state(arms, m)
        /\ last' = Call("import_arm_state", [arm_state |-> m], NoArgs)
        /\ imp' = IF imp.n = 1
                  THEN [imp EXCEPT !.n = 2, !.second = m]
                  ELSE [n |-> 1, base |-> arms, first |-> m, second |-> <<>>]
        /\ UNCHANGED <<epsilon, state_repo, repo, briefs, mc,
                       opt_weights, publisher, client, coord, calls, pipeline, loop>>

\* import_arm_state(export_arm_state()) in one step.
RoundTrip ==
    /\ arms' = import_arm_state(arms, export_arm_state(arms))
    /\ last' = Call("round_trip", NoArgs, NoArgs)
    /\ imp' = NoImport
    /\ UNCHANGED <<epsilon, state_repo, repo, briefs, mc,
                   opt_weights, publisher, client, coord, calls, pipeline, loop>>

Next == Choose \/ Register \/ Export \/ Import \/ RoundTrip

Spec == Init /\ [][Next]_vars

(***************************************************************************)
(* Claims about the optimizer.                                             *)
(***************************************************************************)
HasUnseen(a, candidates) == \E i \in 1..Len(candidates) : Stats(a, candidates[i]).pulls = 0
HasSeen(a, candidates) == \E i \in 1..Len(candidates) : Stats(a, candidates[i]).pulls > 0

\* C1: whenever choose_archetype is called with a candidate whose pulls == 0, it
\* returns (without error) a candidate whose pulls == 0, for every epsilon and
\* every random draw.
C1_ColdStart ==
    (last.op = "choose_archetype" /\ HasUnseen(arms, last.args.candidates))
    => /\ last.ret.error = "none"
       /\ last.ret.chosen \in Range(last.args.candidates)
       /\ Stats(arms, last.ret.chosen).pulls = 0

\* C1 witness: a call with an unseen and a seen candidate whose draw would have
\* explored.
C1_Witness ==
    /\ last.op = "choose_archetype"
    /\ HasUnseen(arms, last.args.candidates)
    /\ HasSeen(arms, last.args.candidates)
    /\ last.args.r < epsilon
    /\ Stats(arms, last.ret.chosen).pulls = 0

\* What C7 says of one step and one arm: pulls does not decrease, and reward_sum
\* changes only by adding the reward of a register_result made for that arm.
PullsAndSumAccumulate(k) ==
    /\ Stats(arms', k).pulls >= Stats(arms, k).pulls
    /\ Stats(arms', k).reward_sum # Stats(arms, k).reward_sum
       => /\ last'.op = "register_result"
          /\ last'.args.archetype = k
          /\ Stats(arms', k).reward_sum = Stats(arms, k).reward_sum + last'.ret.reward

\* C7 as stated: over choose_archetype, register_result, export_arm_state and
\* import_arm_state, pulls never decreases and reward_sum only accumulates.
C7_Original == [][\A k \in ArmKeys : PullsAndSumAccumulate(k)]_vars

\* C7 amended: the same over every operation but import_arm_state, and
\* import_arm_state sets each imported arm to the imported pulls and reward_sum
\* and leaves the other arms alone.
C7_AccumulateExceptImport ==
    [][\A k \in ArmKeys :
          IF last'.op = "import_arm_state"
          THEN Stats(arms', k) = (IF k \in DOMAIN last'.args.arm_state
                                  THEN last'.args.arm_state[k] ELSE Stats(arms, k))
          ELSE PullsAndSumAccumulate(k)]_vars

\* C7 witness: a register_result on an arm that already had a reward.
C7_Witness ==
    /\ last.op = "register_result"
    /\ arms[last.args.archetype].pulls = 2
    /\ arms[last.args.archetype].reward_sum > last.ret.reward

\* C8: import_arm_state(export_arm_state()) changes no arm's pulls or
\* reward_sum and not the set of known arm keys.
C8_RoundTrip ==
    [][last'.op = "round_trip"
        => /\ DOMAIN arms' = DOMAIN arms
           /\ \A k \in DOMAIN arms : arms'[k] = arms[k]]_vars

\* C8 witness: a round trip over a state with a pulled arm and a zero arm.
C8_Witness ==
    /\ last.op = "round_trip"
    /\ \E k \in DOMAIN arms : arms[k].pulls > 0 /\ arms[k].reward_sum > 0
    /\ \E k \in DOMAIN arms : arms[k].pulls = 0

\* The state the two imports of imp give when made in the other order.
ImportedInOtherOrder ==
    import_arm_state(import_arm_state(imp.base, imp.second), imp.first)

Agree(m1, m2) == \A k \in DOMAIN m1 \cap DOMAIN m2 : m1[k] = m2[k]

\* C10 as stated: importing m1 then m2 leaves the arm state that importing m2
\* then m1 leaves, for any two mappings.
C10_Original == imp.n = 2 => arms = ImportedInOtherOrder

\* C10 amended: importing m1 then m2 leaves the arm state that importing m2 then
\* m1 leaves, for any two mappings that give every key they share the same
\* pulls and reward_sum.
C10_OrderIndependentWhenAgreeing ==
    (imp.n = 2 /\ Agree(imp.first, imp.second)) => arms = ImportedInOtherOrder

\* C10 witness: two different mappings sharing a key were imported over a
\* non-empty state.
C10_Witness ==
    /\ imp.n = 2
    /\ Agree(imp.first, imp.second)
    /\ imp.first # imp.second
    /\ DOMAIN imp.first \cap DOMAIN imp.second # {}
    /\ DOMAIN imp.first # DOMAIN imp.second
    /\ imp.base # <<>>

(***************************************************************************)
(* Claims about choose_archetype on an empty candidate sequence.           *)
(***************************************************************************)
\* C21: a step that calls choose_archetype with no candidates ends in an error
\* (IndexError from choice when the draw explores, ValueError from max when it
\* does not), returns no key and leaves the arm state as it was, for every
\* epsilon_exploration.
C21_EmptyCandidatesRaise ==
    [][(last'.op = "choose_archetype" /\ last'.args.candidates = <<>>) =>
          /\ last'.ret.error \in {"IndexError", "ValueError"}
          /\ last'.ret.error = (IF last'.args.r < epsilon THEN "IndexError" ELSE "ValueError")
          /\ last'.ret.chosen = NoKey
          /\ arms' = arms]_vars

\* C21 witness: an optimizer holding a registered arm was asked to choose among
\* no candidates with a draw that does not explore, and max raised.
C21_Witness ==
    /\ last.op = "choose_archetype"
    /\ last.args.candidates = <<>>
    /\ last.ret.error = "ValueError"
    /\ last.args.r < 100000
    /\ \E k \in DOMAIN arms : arms[k].pulls > 0

(***************************************************************************)
(* The state repository (ExperimentStateRepository) as the owner sees it:  *)
(* a table keyed by arm_key. schema_version and trace_id are not modelled. *)
(***************************************************************************)
\* ExperimentStateRepository.build_arm_state_record
build_arm_state_record(arm_key, pulls, reward_sum) ==
    [pulls |-> pulls, reward_sum |-> reward_sum, arm_key |-> arm_key]

\* An upsert that inserts the missing rows and leaves the existing ones.
RECURSIVE upsert_arm_states_insert_only(_, _)
upsert_arm_states_insert_only(table, records) ==
    IF records = <<>> THEN table
    ELSE LET rec == Head(records)
             row == [pulls |-> rec.pulls, reward_sum |-> rec.reward_sum]
             next == IF rec.arm_key \in DOMAIN table THEN table
                     ELSE table @@ (rec.arm_key :> row)
         IN  upsert_arm_states_insert_only(next, Tail(records))

\* An upsert that keeps only the rows of the records it is given.
upsert_arm_states_drops_rows(table, records) ==
    IF records = <<>> THEN table
    ELSE [k \in {records[i].arm_key : i \in 1..Len(records)} |->
             LET i == CHOOSE j \in 1..Len(records) :
                          /\ records[j].arm_key = k
                          /\ \A h \in (j + 1)..Len(records) : records[h].arm_key # k
             IN  [pulls |-> records[i].pulls, reward_sum |-> records[i].reward_sum]]

\* ExperimentStateRepository.upsert_arm_states: get the row of each record's
\* key, add it when there is none, set its pulls and reward_sum.
RECURSIVE upsert_arm_states(_, _)
upsert_arm_states(table, records) ==
    IF records = <<>> THEN table
    ELSE LET rec == Head(records)
             row == [pulls |-> rec.pulls, reward_sum |-> rec.reward_sum]
             next == IF rec.arm_key \in DOMAIN table
                     THEN [table EXCEPT ![rec.arm_key] = row]
                     ELSE table @@ (rec.arm_key :> row)
         IN  upsert_arm_states(next, Tail(records))

(***************************************************************************)
(* ExperimentLifecycleManager.                                             *)
(***************************************************************************)
RECURSIVE Gcd(_, _)
Gcd(x, y) == IF y = 0 THEN x ELSE Gcd(y, x % y)

\* The number avg_reward denotes, in lowest terms (two equal averages are one
\* value, as two equal floats are).
AvgValue(s) ==
    LET f == avg_reward(s)
        g == Gcd(IF f.num < 0 THEN -f.num ELSE f.num, f.den)
    IN  [num |-> f.num \div g, den |-> f.den \div g]

None == <<"None">>

\* [self._arm_key(experiment_id, item) for item in variant_list]
RECURSIVE arm_keys(_, _)
arm_keys(experiment_id, variants) ==
    IF variants = <<>> THEN <<>>
    ELSE <<_arm_key(experiment_id, Head(variants))>>
             \o arm_keys(experiment_id, Tail(variants))

\* arm_choice.split("::")[-1]
last_piece(s) == <<s[Len(s)]>>

\* ExperimentLifecycleManager.assign_variant: what it returns for what
\* choose_archetype returned or raised.
assign_variant(out) ==
    IF out.error # "none" THEN [variant |-> None, error |-> out.error]
    ELSE [variant |-> last_piece(out.chosen), error |-> "none"]

\* A candidate filter that wants more pulls than the threshold.
RECURSIVE promote_candidates_strict(_, _, _, _)
promote_candidates_strict(arm_state, experiment_id, variants, min_sample_size_for_winner) ==
    IF variants = <<>> THEN <<>>
    ELSE LET key == _arm_key(experiment_id, Head(variants))
             rest == promote_candidates_strict(arm_state, experiment_id, Tail(variants),
                                               min_sample_size_for_winner)
         IN  IF key \in DOMAIN arm_state
                /\ arm_state[key].pulls > min_sample_size_for_winner
             THEN <<[variant |-> Head(variants), stats |-> arm_state[key]]>> \o rest
             ELSE rest

\* The loop of promote_winner: the (variant, stats) pairs, in the order of
\* variants, of the variants registered with pulls >= the threshold.
RECURSIVE promote_candidates(_, _, _, _)
promote_candidates(arm_state, experiment_id, variants, min_sample_size_for_winner) ==
    IF variants = <<>> THEN <<>>
    ELSE LET key == _arm_key(experiment_id, Head(variants))
             rest == promote_candidates(arm_state, experiment_id, Tail(variants),
                                        min_sample_size_for_winner)
         IN  IF key \in DOMAIN arm_state
                /\ arm_state[key].pulls >= min_sample_size_for_winner
             THEN <<[variant |-> Head(variants), stats |-> arm_state[key]]>> \o rest
             ELSE rest

RECURSIVE MaxCandidateFrom(_, _, _)
MaxCandidateFrom(candidates, i, best) ==
    IF i > Len(candidates) THEN best
    ELSE MaxCandidateFrom(candidates, i + 1,
            IF AvgLess(avg_reward(candidates[best].stats), avg_reward(candidates[i].stats))
            THEN i ELSE best)

RECURSIVE LastMaxCandidateFrom(_, _, _)
LastMaxCandidateFrom(candidates, i, best) ==
    IF i > Len(candidates) THEN best
    ELSE LastMaxCandidateFrom(candidates, i + 1,
            IF AvgLess(avg_reward(candidates[i].stats), avg_reward(candidates[best].stats))
            THEN best ELSE i)

\* A max that keeps the last of several maxima.
max_candidate_last(candidates) == candidates[LastMaxCandidateFrom(candidates, 1, 1)]

\* max(candidates, key=lambda item: item[1].avg_reward)
max_candidate(candidates) == candidates[MaxCandidateFrom(candidates, 1, 1)]

LifecycleResult(winner, promoted, archived) ==
    [winner |-> winner, promoted |-> promoted, archived |-> archived]

\* A _persist_marker that does not look whether there is a repository.
_persist_marker_without_repo(has_repo, arm_key, pulls, reward_sum) ==
    <<build_arm_state_record(arm_key, pulls, reward_sum)>>

\* ExperimentLifecycleManager._persist_marker: the records it upserts.
_persist_marker(has_repo, arm_key, pulls, reward_sum) ==
    IF ~has_repo THEN <<>>
    ELSE <<build_arm_state_record(arm_key, pulls, reward_sum)>>

\* A promote_winner whose marker carries the winner's reward sum.
promote_winner_marks_reward_sum(a, has_repo, experiment_id, variants, min_sample_size_for_winner) ==
    LET candidates == promote_candidates(export_arm_state(a), experiment_id, variants,
                                         min_sample_size_for_winner)
    IN  IF candidates = <<>>
        THEN [wrote |-> <<>>, result |-> LifecycleResult(None, FALSE, FALSE)]
        ELSE LET w == max_candidate(candidates)
             IN  [wrote |-> _persist_marker(has_repo,
                                <<"winner">> \o experiment_id \o w.variant,
                                w.stats.pulls, AvgValue(ArmStats(1, w.stats.reward_sum))),
                  result |-> LifecycleResult(w.variant, TRUE, FALSE)]

\* A promote_winner that reports the winner without persisting its marker.
promote_winner_without_marker(a, has_repo, experiment_id, variants, min_sample_size_for_winner) ==
    LET candidates == promote_candidates(export_arm_state(a), experiment_id, variants,
                                         min_sample_size_for_winner)
    IN  IF candidates = <<>>
        THEN [wrote |-> <<>>, result |-> LifecycleResult(None, FALSE, FALSE)]
        ELSE [wrote |-> <<>>,
              result |-> LifecycleResult(max_candidate(candidates).variant, TRUE, FALSE)]

\* ExperimentLifecycleManager.promote_winner: the LifecycleResult and the
\* records upserted.
promote_winner(a, has_repo, experiment_id, variants, min_sample_size_for_winner) ==
    LET candidates == promote_candidates(export_arm_state(a), experiment_id, variants,
                                         min_sample_size_for_winner)
    IN  IF candidates = <<>>
        THEN [wrote |-> <<>>, result |-> LifecycleResult(None, FALSE, FALSE)]
        ELSE LET w == max_candidate(candidates)
             IN  [wrote |-> _persist_marker(has_repo,
                                <<"winner">> \o experiment_id \o w.variant,
                                w.stats.pulls, AvgValue(w.stats)),
                  result |-> LifecycleResult(w.variant, TRUE, FALSE)]

\* ExperimentLifecycleManager.archive_experiment: the records upserted.
archive_experiment(has_repo, experiment_id) ==
    _persist_marker(has_repo, <<"archive">> \o experiment_id, 1, 0)

(***************************************************************************)
(* The lifecycle specification: one ExperimentLifecycleManager over one    *)
(* optimizer, with or without a state repository.                          *)
(***************************************************************************)
\* The variants argument: any sequence of distinct variants.
VariantSeqs == {s \in SeqsUpTo(Variants, Cardinality(Variants)) : Cardinality(Range(s)) = Len(s)}
Thresholds == 0..(MaxPulls + 1)

InitLifecycle ==
    /\ arms = <<>>
    /\ epsilon = 20000
    /\ last = NoCall
    /\ imp = NoImport
    /\ state_repo \in BOOLEAN
    /\ repo = <<>>
    /\ briefs = <<>>
    /\ mc = ModeIdle
    /\ opt_weights = objective_weights
    /\ publisher = NoPublisher
    /\ client = <<>>
    /\ coord = NoCoordinator
    /\ calls = 0
    /\ pipeline = NoPipeline
    /\ loop = NoLoop

AssignVariant ==
    \E e \in ExperimentIds, variants \in VariantSeqs, r \in {0, 99999} :
        \E out \in choose_archetype(arms, epsilon, arm_keys(e, variants), r) :
            /\ arms' = TouchAll(arms, arm_keys(e, variants))
            /\ last' = Call("assign_variant",
                            [experiment_id |-> e, variants |-> variants],
                            assign_variant(out))
            /\ UNCHANGED <<epsilon, imp, state_repo, repo, briefs, mc,
                           opt_weights, publisher, client, coord, calls, pipeline, loop>>

RegisterOutcome ==
    \E e \in ExperimentIds, v \in Variants, m \in MetricsSet :
        /\ Stats(arms, _arm_key(e, v)).pulls < MaxPulls
        /\ arms' = register_result(arms, _arm_key(e, v), score(m, objective_weights))
        /\ last' = Call("register_outcome",
                        [experiment_id |-> e, variant |-> v, metrics |-> m],
                        [reward |-> score(m, objective_weights)])
        /\ UNCHANGED <<epsilon, imp, state_repo, repo, briefs, mc,
                       opt_weights, publisher, client, coord, calls, pipeline, loop>>

PromoteWinner ==
    \E e \in ExperimentIds, variants \in VariantSeqs, min \in Thresholds :
        LET out == promote_winner(arms, state_repo, e, variants, min)
        IN  /\ repo' = upsert_arm_states(repo, out.wrote)
            /\ last' = CallW("promote_winner",
                             [experiment_id |-> e, variants |-> variants,
                              min_sample_size_for_winner |-> min],
                             out.result, out.wrote)
            /\ UNCHANGED <<arms, epsilon, imp, state_repo, briefs, mc,
                           opt_weights, publisher, client, coord, calls, pipeline, loop>>

ArchiveExperiment ==
    \E e \in ExperimentIds :
        LET wrote == archive_experiment(state_repo, e)
        IN  /\ repo' = upsert_arm_states(repo, wrote)
            /\ last' = CallW("archive_experiment", [experiment_id |-> e], NoArgs, wrote)
            /\ UNCHANGED <<arms, epsilon, imp, state_repo, briefs, mc,
                           opt_weights, publisher, client, coord, calls, pipeline, loop>>

NextLifecycle == AssignVariant \/ RegisterOutcome \/ PromoteWinner \/ ArchiveExperiment

SpecLifecycle == InitLifecycle /\ [][NextLifecycle]_vars

(***************************************************************************)
(* Claims about promote_winner.                                            *)
(***************************************************************************)
\* The accumulated statistics of the i-th variant of the last promote_winner.
VariantStats(i) ==
    Stats(arms, _arm_key(last.args.experiment_id, last.args.variants[i]))

Qualifies(i) == VariantStats(i).pulls >= last.args.min_sample_size_for_winner

\* The i-th variant's arm is known to the optimizer.
Registered(i) == _arm_key(last.args.experiment_id, last.args.variants[i]) \in DOMAIN arms

SomeQualifies == \E i \in 1..Len(last.args.variants) : Qualifies(i)

\* C2: with a threshold >= 1, promote_winner returns promoted=True and a winner
\* exactly when some given variant has pulls >= the threshold; otherwise it
\* returns (None, False, False) and upserts nothing.
C2_PromotedIffQualifying ==
    (last.op = "promote_winner" /\ last.args.min_sample_size_for_winner >= 1)
    => /\ (last.ret.promoted /\ last.ret.winner # None) <=> SomeQualifies
       /\ ~SomeQualifies
          => /\ last.ret = LifecycleResult(None, FALSE, FALSE)
             /\ last.wrote = <<>>

\* C2 witness: no promotion although a given variant is registered with pulls
\* one short of the threshold, and a repository is configured.
C2_Witness ==
    /\ last.op = "promote_winner"
    /\ state_repo
    /\ last.args.min_sample_size_for_winner >= 2
    /\ \E i \in 1..Len(last.args.variants) :
           VariantStats(i).pulls = last.args.min_sample_size_for_winner - 1
    /\ ~last.ret.promoted

\* That the promoted winner is the earliest variant satisfying Q whose
\* avg_reward no variant satisfying Q exceeds.
WinnerIsFirstBest(Q(_)) ==
    \E i \in 1..Len(last.args.variants) :
        /\ last.ret.winner = last.args.variants[i]
        /\ Q(i)
        /\ \A j \in 1..Len(last.args.variants) :
               Q(j) => /\ ~AvgLess(avg_reward(VariantStats(i)), avg_reward(VariantStats(j)))
                       /\ j < i => AvgLess(avg_reward(VariantStats(j)),
                                           avg_reward(VariantStats(i)))

\* C3 as stated: whenever some variant has pulls >= the threshold, the winner
\* is the earliest of the variants with pulls >= the threshold that have the
\* greatest avg_reward.
C3_Original ==
    (last.op = "promote_winner" /\ SomeQualifies) => WinnerIsFirstBest(Qualifies)

RegisteredAndQualifies(i) == Registered(i) /\ Qualifies(i)

\* C3 amended: whenever promote_winner promotes, the winner is the earliest of
\* the variants known to the optimizer with pulls >= the threshold that have
\* the greatest avg_reward; for a threshold >= 1 these are exactly the variants
\* with pulls >= the threshold, and some such variant means a promotion.
C3_WinnerIsFirstBestRegistered ==
    last.op = "promote_winner"
    => /\ last.ret.promoted => WinnerIsFirstBest(RegisteredAndQualifies)
       /\ last.args.min_sample_size_for_winner >= 1
          => /\ \A i \in 1..Len(last.args.variants) : Qualifies(i) => Registered(i)
             /\ SomeQualifies => last.ret.promoted

\* C3 witness: the winner is the first of two qualifying variants with equal
\* avg_reward and different pulls.
C3_Witness ==
    /\ last.op = "promote_winner"
    /\ last.ret.promoted
    /\ Len(last.args.variants) = 2
    /\ last.ret.winner = last.args.variants[1]
    /\ last.args.min_sample_size_for_winner >= 1
    /\ Qualifies(2)
    /\ VariantStats(1).pulls # VariantStats(2).pulls
    /\ AvgValue(VariantStats(1)) = AvgValue(VariantStats(2))

\* C22: without a state repository promote_winner and archive_experiment write
\* nothing (they have no error to raise), and promote_winner returns the
\* LifecycleResult it returns for the same arm state with a repository.
C22_NoRepositoryIsSilent ==
    ((last.op \in {"promote_winner", "archive_experiment"}) /\ ~state_repo) =>
        /\ last.wrote = <<>>
        /\ repo = <<>>
        /\ last.op = "promote_winner" =>
              last.ret = promote_winner(arms, TRUE, last.args.experiment_id,
                                        last.args.variants,
                                        last.args.min_sample_size_for_winner).result

\* C22 witness: a manager without a repository promoted a winner.
C22_Witness ==
    /\ last.op = "promote_winner"
    /\ ~state_repo
    /\ last.ret.promoted
    /\ last.ret.winner # None
    /\ repo = <<>>

\* The variant promote_winner last returned, as its (variant, stats) pair.
WinnerStats == Stats(arms, _arm_key(last.args.experiment_id, last.ret.winner))

\* C27: a step in which promote_winner finds a winner, with a state repository,
\* upserts exactly one record, keyed winner::{experiment_id}::{winner}, whose
\* pulls is the winner's pulls and whose reward_sum field is the winner's
\* avg_reward; the arm state of the optimizer stays as it was.
C27_WinnerMarker ==
    [][(last'.op = "promote_winner" /\ last'.ret.promoted /\ state_repo) =>
          LET key == <<"winner">> \o last'.args.experiment_id \o last'.ret.winner
              stats == Stats(arms, _arm_key(last'.args.experiment_id, last'.ret.winner))
          IN  /\ Len(last'.wrote) = 1
              /\ last'.wrote[1].arm_key = key
              /\ last'.wrote[1].pulls = stats.pulls
              /\ last'.wrote[1].reward_sum = AvgValue(stats)
              /\ key \in DOMAIN repo'
              /\ repo'[key].pulls = stats.pulls
              /\ repo'[key].reward_sum = AvgValue(stats)
              /\ \A k \in DOMAIN repo' \ {key} : k \in DOMAIN repo /\ repo'[k] = repo[k]
              /\ arms' = arms]_vars

\* C27 witness: the marker of a winner with two pulls, whose avg_reward is not
\* its reward sum, is in the repository.
C27_Witness ==
    /\ last.op = "promote_winner"
    /\ last.ret.promoted
    /\ state_repo
    /\ WinnerStats.pulls = 2
    /\ WinnerStats.reward_sum > 0
    /\ Len(last.wrote) = 1
    /\ last.wrote[1].reward_sum = AvgValue(WinnerStats)

(***************************************************************************)
(* ModeController.                                                         *)
(* explore_coef, drawdown_24h and monetization_drift are integers in units *)
(* of 10^-5; the adjusted coefficient is computed exactly in units of      *)
(* 5 * 10^-7 (a twentieth of that), in which 0.05 is 100000, 0.8 is        *)
(* 1600000 and 10^-4 is 200.                                               *)
(***************************************************************************)
ModeInputs(hit, fatigue, trend, drift, plateau, hours, drawdown, risk) ==
    [hit_rate_7d |-> hit, novelty_fatigue |-> fatigue, account_volatility |-> 0,
     confidence_trend |-> trend, monetization_drift |-> drift,
     plateau_cycles |-> plateau, hours_since_mode_change |-> hours,
     drawdown_24h |-> drawdown, risk_budget |-> risk]

Transition(mode, reason) == [mode |-> mode, rationale |-> <<reason>>]

\* The rules with the way back to exploit open to every mode.
transition_exploit_from_anywhere(current_mode, inputs) ==
    IF inputs.hours_since_mode_change < 6
    THEN [mode |-> current_mode, rationale |-> <<"cooldown_active">>]
    ELSE IF current_mode = "exploit" /\ inputs.novelty_fatigue >= 65
    THEN Transition("explore", "exploit_to_explore_due_to_fatigue")
    ELSE IF current_mode = "explore" /\ inputs.hit_rate_7d >= 60
            /\ inputs.confidence_trend > 0
    THEN Transition("mutation", "explore_to_mutation_due_to_repeated_wins")
    ELSE IF inputs.plateau_cycles >= 3 /\ inputs.risk_budget >= 60
            /\ inputs.hours_since_mode_change >= 12
    THEN Transition("chaos", "plateau_triggered_chaos")
    ELSE IF inputs.hit_rate_7d < 50
    THEN Transition("exploit", "chaos_back_to_exploit")
    ELSE [mode |-> current_mode, rationale |-> <<>>]

\* The rules with the plateau rule tried before the two mode-specific ones.
transition_plateau_first(current_mode, inputs) ==
    IF inputs.hours_since_mode_change < 6
    THEN [mode |-> current_mode, rationale |-> <<"cooldown_active">>]
    ELSE IF inputs.plateau_cycles >= 3 /\ inputs.risk_budget >= 60
            /\ inputs.hours_since_mode_change >= 12
    THEN Transition("chaos", "plateau_triggered_chaos")
    ELSE IF current_mode = "exploit" /\ inputs.novelty_fatigue >= 65
    THEN Transition("explore", "exploit_to_explore_due_to_fatigue")
    ELSE IF current_mode = "explore" /\ inputs.hit_rate_7d >= 60
            /\ inputs.confidence_trend > 0
    THEN Transition("mutation", "explore_to_mutation_due_to_repeated_wins")
    ELSE IF current_mode = "chaos" /\ inputs.hit_rate_7d < 50
    THEN Transition("exploit", "chaos_back_to_exploit")
    ELSE [mode |-> current_mode, rationale |-> <<>>]

\* The if / elif chain of decide: the mode and the rationale list it leaves.
transition(current_mode, inputs) ==
    IF inputs.hours_since_mode_change < 6
    THEN [mode |-> current_mode, rationale |-> <<"cooldown_active">>]
    ELSE IF current_mode = "exploit" /\ inputs.novelty_fatigue >= 65
    THEN Transition("explore", "exploit_to_explore_due_to_fatigue")
    ELSE IF current_mode = "explore" /\ inputs.hit_rate_7d >= 60
            /\ inputs.confidence_trend > 0
    THEN Transition("mutation", "explore_to_mutation_due_to_repeated_wins")
    ELSE IF inputs.plateau_cycles >= 3 /\ inputs.risk_budget >= 60
            /\ inputs.hours_since_mode_change >= 12
    THEN Transition("chaos", "plateau_triggered_chaos")
    ELSE IF current_mode = "chaos" /\ inputs.hit_rate_7d < 50
    THEN Transition("exploit", "chaos_back_to_exploit")
    ELSE [mode |-> current_mode, rationale |-> <<>>]

\* explore_coef + (0.2 - drawdown_24h) * 0.1 + monetization_drift * 0.05
adjusted(explore_coef, inputs) ==
    20 * explore_coef + 2 * (20000 - inputs.drawdown_24h) + inputs.monetization_drift

Min(x, y) == IF x < y THEN x ELSE y
Max(x, y) == IF x > y THEN x ELSE y

\* A clamp without the lower limit.
clamp_upper_only(x) == Min(1600000, x)

\* min(0.8, max(0.05, adjusted))
clamp(x) == Min(1600000, Max(100000, x))

\* round(x, 4) of a non-negative x, back in units of 10^-5. A value halfway
\* between two multiples of 10^-4 goes to whichever is nearer to the float that
\* stands for it: either.
round4(x) ==
    LET q == x \div 200
        rem == x % 200
    IN  IF rem < 100 THEN {10 * q}
        ELSE IF rem > 100 THEN {10 * (q + 1)}
        ELSE {10 * q, 10 * (q + 1)}

ModeDecision(mode, explore_coef, rationale) ==
    [mode |-> mode, rationale |-> rationale, explore_coef |-> explore_coef]

\* A decide that returns from the cooldown branch with explore_coef untouched.
decide_cooldown_returns_early(current_mode, explore_coef, inputs) ==
    LET t == transition(current_mode, inputs)
    IN  IF inputs.hours_since_mode_change < 6
        THEN {ModeDecision(t.mode, explore_coef, t.rationale)}
        ELSE {ModeDecision(t.mode, e,
                           IF t.rationale # <<>> THEN t.rationale ELSE <<"stay">>) :
                 e \in round4(clamp(adjusted(explore_coef, inputs)))}

\* ModeController.decide: the ModeDecisions it can return.
decide(current_mode, explore_coef, inputs) ==
    LET t == transition(current_mode, inputs)
    IN  {ModeDecision(t.mode, e, IF t.rationale # <<>> THEN t.rationale ELSE <<"stay">>) :
            e \in round4(clamp(adjusted(explore_coef, inputs)))}

(***************************************************************************)
(* The mode specification: decide applied to any arguments.                *)
(***************************************************************************)
Modes == {"exploit", "explore", "mutation", "chaos"}
ExploreCoefs == {-10000, 5000, 20000, 20003, 20005, 120000}
HitRates == {49, 55, 60}
Fatigues == {64, 65}
Trends == {0, 1}
Drifts == {-100000, 0, 30000}
PlateauCycles == {2, 3}
HoursSinceChange == {5, 6, 11, 12}
Drawdowns == {0, 12345, 500000}
RiskBudgets == {59, 60}

AllModeInputs ==
    {ModeInputs(hit, fatigue, trend, drift, plateau, hours, drawdown, risk) :
        hit \in HitRates, fatigue \in Fatigues, trend \in Trends, drift \in Drifts,
        plateau \in PlateauCycles, hours \in HoursSinceChange,
        drawdown \in Drawdowns, risk \in RiskBudgets}

InitMode ==
    /\ arms = <<>>
    /\ epsilon = 20000
    /\ last = NoCall
    /\ imp = NoImport
    /\ state_repo = FALSE
    /\ repo = <<>>
    /\ briefs = <<>>
    /\ \E m \in Modes, e \in ExploreCoefs, i \in AllModeInputs :
           mc = [pc |-> "call", current_mode |-> m, inputs |-> i, explore_coef |-> e]
    /\ opt_weights = objective_weights
    /\ publisher = NoPublisher
    /\ client = <<>>
    /\ coord = NoCoordinator
    /\ calls = 0
    /\ pipeline = NoPipeline
    /\ loop = NoLoop

Decide ==
    /\ mc.pc = "call"
    /\ \E d \in decide(mc.current_mode, mc.explore_coef, mc.inputs) :
           mc' = [pc |-> "done", current_mode |-> mc.current_mode,
                  inputs |-> mc.inputs, explore_coef |-> mc.explore_coef,
                  decision |-> d]
    /\ UNCHANGED <<arms, epsilon, last, imp, state_repo, repo, briefs,
                   opt_weights, publisher, client, coord, calls, pipeline, loop>>

NextMode == Decide

SpecMode == InitMode /\ [][NextMode]_vars

(***************************************************************************)
(* Claims about ModeController.decide.                                     *)
(***************************************************************************)
InCooldown == mc.pc = "done" /\ mc.inputs.hours_since_mode_change < 6
OutOfCooldown == mc.pc = "done" /\ mc.inputs.hours_since_mode_change >= 6

CooldownKeepsMode ==
    /\ mc.decision.mode = mc.current_mode
    /\ mc.decision.rationale = <<"cooldown_active">>

\* C4 as stated: in cooldown the mode is kept, the rationale is exactly
\* ["cooldown_active"], and the returned explore_coef is
\* clamp(explore_coef + (0.2 - drawdown_24h) * 0.1 + monetization_drift * 0.05,
\* 0.05, 0.8).
C4_Original ==
    InCooldown
    => /\ CooldownKeepsMode
       /\ 20 * mc.decision.explore_coef = clamp(adjusted(mc.explore_coef, mc.inputs))

\* C4 amended: in cooldown the mode is kept, the rationale is exactly
\* ["cooldown_active"], and the returned explore_coef is that clamp rounded to
\* 4 decimal places.
C4_CooldownKeepsModeAndRecomputes ==
    InCooldown
    => /\ CooldownKeepsMode
       /\ mc.decision.explore_coef \in round4(clamp(adjusted(mc.explore_coef, mc.inputs)))

\* C4 witness: a cooldown call whose other inputs match the exploit -> explore
\* rule and whose explore_coef changes.
C4_Witness ==
    /\ InCooldown
    /\ mc.current_mode = "exploit"
    /\ mc.inputs.novelty_fatigue >= 65
    /\ mc.decision.explore_coef # mc.explore_coef
    /\ mc.decision.explore_coef > 5000
    /\ mc.decision.explore_coef < 80000

FatigueRule == mc.current_mode = "exploit" /\ mc.inputs.novelty_fatigue >= 65
WinsRule ==
    mc.current_mode = "explore" /\ mc.inputs.hit_rate_7d >= 60
    /\ mc.inputs.confidence_trend > 0
PlateauRule ==
    mc.inputs.plateau_cycles >= 3 /\ mc.inputs.risk_budget >= 60
    /\ mc.inputs.hours_since_mode_change >= 12
ChaosExitRule == mc.current_mode = "chaos" /\ mc.inputs.hit_rate_7d < 50

Applied(mode, reason) ==
    mc.decision.mode = mode /\ mc.decision.rationale = <<reason>>

\* C5: outside cooldown decide applies the first matching rule of: fatigue,
\* repeated wins, plateau, chaos exit, stay; the rationale has exactly the one
\* entry naming that rule.
C5_FirstMatchingRule ==
    OutOfCooldown
    => /\ Len(mc.decision.rationale) = 1
       /\ FatigueRule => Applied("explore", "exploit_to_explore_due_to_fatigue")
       /\ (~FatigueRule /\ WinsRule)
          => Applied("mutation", "explore_to_mutation_due_to_repeated_wins")
       /\ (~FatigueRule /\ ~WinsRule /\ PlateauRule)
          => Applied("chaos", "plateau_triggered_chaos")
       /\ (~FatigueRule /\ ~WinsRule /\ ~PlateauRule /\ ChaosExitRule)
          => Applied("exploit", "chaos_back_to_exploit")
       /\ (~FatigueRule /\ ~WinsRule /\ ~PlateauRule /\ ~ChaosExitRule)
          => Applied(mc.current_mode, "stay")

\* C5 witness: the repeated-wins rule applied although the plateau rule
\* matches too.
C5_Witness ==
    /\ OutOfCooldown
    /\ WinsRule
    /\ PlateauRule
    /\ Applied("mutation", "explore_to_mutation_due_to_repeated_wins")

\* C6: the explore_coef decide returns lies in [0.05, 0.8].
C6_ExploreCoefInRange ==
    mc.pc = "done" => (mc.decision.explore_coef >= 5000 /\ mc.decision.explore_coef <= 80000)

\* C6 witness: an explore_coef below 0.05 came back as 0.05.
C6_Witness ==
    /\ mc.pc = "done"
    /\ mc.explore_coef < 5000
    /\ mc.decision.explore_coef = 5000

(***************************************************************************)
(* InstagramAISystem with an experiment state repository.                  *)
(***************************************************************************)
\* The archetypes list of run_creation_cycle.
archetypes ==
    << <<"problem_solution">>, <<"contrarian_take">>, <<"case_study_breakdown">>,
       <<"challenge_format">> >>

\* PageStrategyConfig.target_personas of the modelled system.
target_personas == <<"founders">>

\* state_map of _load_optimizer_state: the rows of load_arm_states by arm_key.
state_map(table) == [k \in DOMAIN table |-> ArmStats(table[k].pulls, table[k].reward_sum)]

\* InstagramAISystem._load_optimizer_state: the optimizer's arms afterwards.
_load_optimizer_state(has_repo, a, table) ==
    IF ~has_repo THEN a ELSE import_arm_state(a, state_map(table))

\* state_rows of _persist_optimizer_state: one record for each exported arm.
RECURSIVE state_rows(_)
state_rows(arm_state) ==
    IF DOMAIN arm_state = {} THEN <<>>
    ELSE LET k == CHOOSE x \in DOMAIN arm_state : TRUE
             rest == [x \in DOMAIN arm_state \ {k} |-> arm_state[x]]
         IN  <<build_arm_state_record(k, arm_state[k].pulls, arm_state[k].reward_sum)>>
                 \o state_rows(rest)

\* InstagramAISystem._persist_optimizer_state: the table afterwards.
_persist_optimizer_state(has_repo, a, table) ==
    IF ~has_repo THEN table ELSE upsert_arm_states(table, state_rows(export_arm_state(a)))

\* self._brief_to_archetype.get(metrics.brief_id, "problem_solution")
archetype_of(b, brief_id) ==
    IF brief_id \in DOMAIN b THEN b[brief_id] ELSE <<"problem_solution">>

\* The briefs of one run_creation_cycle: batch_size = 2 for each persona.
BriefsPerCycle == 1..(2 * Len(target_personas))

\* uuid4 brief ids: the n-th brief of this system is "brief-n".
BriefId(b, i) == <<"brief", Cardinality(DOMAIN b) + i>>

SystemMetrics ==
    {Metrics(id, v, 1 - v) :
        id \in {<<"brief", i>> : i \in 1..(2 * Len(target_personas))} \cup {<<"unknown-brief">>},
        v \in {0, 1}}

TotalPulls(a) ==
    LET RECURSIVE Sum(_)
        Sum(D) == IF D = {} THEN 0
                  ELSE LET k == CHOOSE x \in D : TRUE IN a[k].pulls + Sum(D \ {k})
    IN  Sum(DOMAIN a)

InitSystem ==
    /\ epsilon = 20000
    /\ last = NoCall
    /\ imp = NoImport
    /\ state_repo = TRUE
    /\ repo = <<>>
    /\ arms = _load_optimizer_state(state_repo, <<>>, repo)
    /\ briefs = <<>>
    /\ mc = ModeIdle
    /\ opt_weights = objective_weights
    /\ publisher = NoPublisher
    /\ client = <<>>
    /\ coord = NoCoordinator
    /\ calls = 0
    /\ pipeline = NoPipeline
    /\ loop = NoLoop

\* run_creation_cycle: every brief of every batch gets the archetype
\* choose_archetype returns for it.
RunCreationCycle ==
    /\ Cardinality(DOMAIN briefs) < MaxCycles * Cardinality(BriefsPerCycle)
    /\ \E r \in [BriefsPerCycle -> {0, 99999}] :
       \E picks \in [BriefsPerCycle -> {c : c \in Range(archetypes)}] :
           /\ \A i \in BriefsPerCycle :
                  Returned(picks[i]) \in choose_archetype(arms, epsilon, archetypes, r[i])
           /\ arms' = TouchAll(arms, archetypes)
           /\ briefs' = [id \in DOMAIN briefs \cup {BriefId(briefs, i) : i \in BriefsPerCycle} |->
                            IF id \in DOMAIN briefs THEN briefs[id]
                            ELSE picks[CHOOSE i \in BriefsPerCycle : BriefId(briefs, i) = id]]
           /\ last' = Call("run_creation_cycle", NoArgs, NoArgs)
           /\ UNCHANGED <<epsilon, imp, state_repo, repo, mc,
                          opt_weights, publisher, client, coord, calls, pipeline, loop>>

\* register_post_metrics: register the result, then persist the whole arm state.
RegisterPostMetrics ==
    \E m \in SystemMetrics :
        LET archetype == archetype_of(briefs, m.brief_id)
            registered == register_result(arms, archetype, score(m, objective_weights))
        IN  /\ TotalPulls(arms) < MaxPosts
            /\ arms' = registered
            /\ repo' = _persist_optimizer_state(state_repo, registered, repo)
            /\ last' = Call("register_post_metrics", [brief_id |-> m.brief_id],
                            [reward |-> score(m, objective_weights)])
            /\ UNCHANGED <<epsilon, imp, state_repo, briefs, mc,
                           opt_weights, publisher, client, coord, calls, pipeline, loop>>

\* The process ends and a new InstagramAISystem is constructed over the same
\* repository.
Restart ==
    /\ arms' = _load_optimizer_state(state_repo, <<>>, repo)
    /\ briefs' = <<>>
    /\ last' = Call("restart", NoArgs, NoArgs)
    /\ UNCHANGED <<epsilon, imp, state_repo, repo, mc,
                   opt_weights, publisher, client, coord, calls, pipeline, loop>>

NextSystem == RunCreationCycle \/ RegisterPostMetrics \/ Restart

SpecSystem == InitSystem /\ [][NextSystem]_vars

(***************************************************************************)
(* Claims about restarts.                                                  *)
(***************************************************************************)
\* The optimizer arms of a new InstagramAISystem constructed over repo.
RestoredArms == _load_optimizer_state(state_repo, <<>>, repo)

C20_ReturnsSuppliedVariant ==
    (last.op = "assign_variant" /\ last.args.variants # <<>>)
        => (last.ret.error = "none" /\ last.ret.variant \in Range(last.args.variants))

(***************************************************************************)
(* LearningLoopUpdater and ObjectiveAwareStrategyUpdater.                  *)
(*                                                                         *)
(* Scores and errors are in hundredths. An objective weight is the exact   *)
(* fraction [num, den] in lowest terms with den > 0, so that the division  *)
(* by the total is the division and not a copy.                            *)
(***************************************************************************)
MaxScores == 2     \* longest observed / predicted list passed to LearningLoopUpdater.apply
MaxApplies == 1    \* ObjectiveAwareStrategyUpdater.apply calls made on one OptimizationConfig

Abs(x) == IF x < 0 THEN -x ELSE x

\* The float n / d (d # 0).
Frac(n, d) ==
    LET g == Gcd(Abs(n), Abs(d))
        s == IF d < 0 THEN -1 ELSE 1
    IN  [num |-> s * (n \div g), den |-> s * (d \div g)]

FAdd(x, y) ==
    LET g == Gcd(x.den, y.den)
    IN  Frac(x.num * (y.den \div g) + y.num * (x.den \div g), (x.den \div g) * y.den)

FLess(x, y) == x.num * y.den < y.num * x.den

\* x / y for y # 0.
FDiv(x, y) ==
    LET g == Gcd(x.den, y.den)
        h == Gcd(Abs(x.num), Abs(y.num))
    IN  Frac((x.num \div h) * (y.den \div g), (x.den \div g) * (y.num \div h))

\* sum(weights.values())
RECURSIVE FSum(_)
FSum(w) ==
    IF DOMAIN w = {} THEN Frac(0, 1)
    ELSE LET k == CHOOSE x \in DOMAIN w : TRUE
         IN  FAdd(w[k], FSum([x \in DOMAIN w \ {k} |-> w[x]]))

\* A LearningLoopUpdater.apply that widens exploration without the 0.5 cap.
LearningLoopUpdater_apply_uncapped(observed, predicted, eps) ==
    LET errors == [i \in 1..Min(Len(observed), Len(predicted)) |->
                      observed[i] - predicted[i]]
        n == Len(errors)
        RECURSIVE SumSeq(_)
        SumSeq(s) == IF s = <<>> THEN 0 ELSE Head(s) + SumSeq(Tail(s))
        mean_error == Frac(SumSeq(errors), 100 * n)
        mae == Frac(SumSeq([i \in 1..n |-> Abs(errors[i])]), 100 * n)
    IN  IF n = 0
        THEN [epsilon |-> eps,
              update |-> [mean_error |-> Frac(0, 1), sample_count |-> 0,
                          mean_absolute_error |-> Frac(0, 1)]]
        ELSE [epsilon |-> IF FLess(Frac(15, 100), mae) THEN eps + 5000
                          ELSE IF FLess(mae, Frac(5, 100)) THEN Max(5000, eps - 2000)
                          ELSE eps,
              update |-> [mean_error |-> mean_error, sample_count |-> n,
                          mean_absolute_error |-> mae]]

\* LearningLoopUpdater.apply: the LearningLoopUpdate returned and the
\* epsilon_exploration it leaves in the configuration.
LearningLoopUpdater_apply(observed, predicted, eps) ==
    LET \* zip(observed, predicted, strict=False) and the errors obs - pred
        errors == [i \in 1..Min(Len(observed), Len(predicted)) |->
                      observed[i] - predicted[i]]
        n == Len(errors)
        RECURSIVE SumSeq(_)
        SumSeq(s) == IF s = <<>> THEN 0 ELSE Head(s) + SumSeq(Tail(s))
        mean_error == Frac(SumSeq(errors), 100 * n)
        mae == Frac(SumSeq([i \in 1..n |-> Abs(errors[i])]), 100 * n)
    IN  IF n = 0
        THEN [epsilon |-> eps,
              update |-> [mean_error |-> Frac(0, 1), sample_count |-> 0,
                          mean_absolute_error |-> Frac(0, 1)]]
        ELSE [epsilon |-> IF FLess(Frac(15, 100), mae) THEN Min(50000, eps + 5000)
                          ELSE IF FLess(mae, Frac(5, 100)) THEN Max(5000, eps - 2000)
                          ELSE eps,
              update |-> [mean_error |-> mean_error, sample_count |-> n,
                          mean_absolute_error |-> mae]]

(***************************************************************************)
(* The learning specification: LearningLoopUpdater.apply called any number *)
(* of times on one OptimizationConfig.                                     *)
(***************************************************************************)
InitLearning ==
    /\ arms = <<>>
    /\ epsilon \in {0, 4000, 20000, 49000, 80000, 100000}
    /\ last = NoCall
    /\ imp = NoImport
    /\ state_repo = FALSE
    /\ repo = <<>>
    /\ briefs = <<>>
    /\ mc = ModeIdle
    /\ opt_weights = objective_weights
    /\ publisher = NoPublisher
    /\ client = <<>>
    /\ coord = NoCoordinator
    /\ calls = 0
    /\ pipeline = NoPipeline
    /\ loop = NoLoop

LearningApply ==
    \E observed, predicted \in SeqsUpTo({10, 15, 30}, MaxScores) :
        LET r == LearningLoopUpdater_apply(observed, predicted, epsilon)
        IN  /\ epsilon' = r.epsilon
            /\ last' = Call("LearningLoopUpdater.apply",
                            [observed |-> observed, predicted |-> predicted,
                             epsilon_exploration |-> epsilon],
                            r.update)
            /\ UNCHANGED <<arms, imp, state_repo, repo, briefs, mc,
                           opt_weights, publisher, client, coord, calls, pipeline, loop>>

SpecLearning == InitLearning /\ [][LearningApply]_vars

(***************************************************************************)
(* Claims about LearningLoopUpdater.apply.                                 *)
(***************************************************************************)
\* C12: for a non-empty paired input and a starting epsilon_exploration in
\* [0, 1], apply never lowers epsilon_exploration when mean_absolute_error >
\* 0.15 (it becomes min(0.5, old + 0.05)), never raises it when
\* mean_absolute_error < 0.05 (it becomes max(0.05, old - 0.02)), and leaves
\* it unchanged when 0.05 <= mean_absolute_error <= 0.15.
C12_EpsilonFollowsError ==
    (/\ last.op = "LearningLoopUpdater.apply"
     /\ last.ret.sample_count > 0
     /\ last.args.epsilon_exploration \in 0..100000)
    => LET old == last.args.epsilon_exploration
           mae == last.ret.mean_absolute_error
       IN  /\ FLess(Frac(15, 100), mae)
                => (epsilon >= old /\ epsilon = Min(50000, old + 5000))
           /\ FLess(mae, Frac(5, 100))
                => (epsilon <= old /\ epsilon = Max(5000, old - 2000))
           /\ (~FLess(Frac(15, 100), mae) /\ ~FLess(mae, Frac(5, 100)))
                => epsilon = old

(***************************************************************************)
(* ObjectiveAwareStrategyUpdater.                                          *)
(***************************************************************************)
KPI_TO_WEIGHT ==
    [reach_delta |-> "views", engagement_delta |-> "likes",
     conversation_delta |-> "comments", share_delta |-> "shares",
     save_delta |-> "saves", watch_time_delta |-> "watch_time"]

\* An apply that divides by the total the weights had before the shifts.
ObjectiveAwareStrategyUpdater_apply_stale_total(kpi_deltas, weights) ==
    LET known == {d \in DOMAIN kpi_deltas : d \in DOMAIN KPI_TO_WEIGHT}
        keys == DOMAIN weights \cup {KPI_TO_WEIGHT[d] : d \in known}
        shifted == [k \in keys |->
            IF \E d \in known : KPI_TO_WEIGHT[d] = k
            THEN LET d == CHOOSE x \in known : KPI_TO_WEIGHT[x] = k
                     direction == IF kpi_deltas[d] < 0 THEN -1 ELSE 1
                     v == FAdd(IF k \in DOMAIN weights THEN weights[k] ELSE Frac(1, 100),
                               Frac(3 * direction, 100))
                 IN  IF FLess(Frac(1, 100), v) THEN v ELSE Frac(1, 100)
            ELSE weights[k]]
        total == FSum(weights)
    IN  IF FLess(Frac(0, 1), total)
        THEN [k \in keys |-> FDiv(shifted[k], total)]
        ELSE shifted

\* An apply whose shifts have no floor.
ObjectiveAwareStrategyUpdater_apply_unfloored(kpi_deltas, weights) ==
    LET known == {d \in DOMAIN kpi_deltas : d \in DOMAIN KPI_TO_WEIGHT}
        keys == DOMAIN weights \cup {KPI_TO_WEIGHT[d] : d \in known}
        shifted == [k \in keys |->
            IF \E d \in known : KPI_TO_WEIGHT[d] = k
            THEN LET d == CHOOSE x \in known : KPI_TO_WEIGHT[x] = k
                     direction == IF kpi_deltas[d] < 0 THEN -1 ELSE 1
                 IN  FAdd(IF k \in DOMAIN weights THEN weights[k] ELSE Frac(1, 100),
                          Frac(3 * direction, 100))
            ELSE weights[k]]
        total == FSum(shifted)
    IN  IF FLess(Frac(0, 1), total)
        THEN [k \in keys |-> FDiv(shifted[k], total)]
        ELSE shifted

\* ObjectiveAwareStrategyUpdater.apply with the default adjustment_step 0.03:
\* the weights it returns and stores in optimization.objective_weights. The
\* keys of kpi_deltas map to different weights, so their order is immaterial.
ObjectiveAwareStrategyUpdater_apply(kpi_deltas, weights) ==
    LET known == {d \in DOMAIN kpi_deltas : d \in DOMAIN KPI_TO_WEIGHT}
        keys == DOMAIN weights \cup {KPI_TO_WEIGHT[d] : d \in known}
        \* max(0.01, weights.get(metric_key, 0.01) + adjustment_step * direction)
        shifted == [k \in keys |->
            IF \E d \in known : KPI_TO_WEIGHT[d] = k
            THEN LET d == CHOOSE x \in known : KPI_TO_WEIGHT[x] = k
                     direction == IF kpi_deltas[d] < 0 THEN -1 ELSE 1
                     v == FAdd(IF k \in DOMAIN weights THEN weights[k] ELSE Frac(1, 100),
                               Frac(3 * direction, 100))
                 IN  IF FLess(Frac(1, 100), v) THEN v ELSE Frac(1, 100)
            ELSE weights[k]]
        total == FSum(shifted)
    IN  IF FLess(Frac(0, 1), total)
        THEN [k \in keys |-> FDiv(shifted[k], total)]
        ELSE shifted

(***************************************************************************)
(* The strategy specification: ObjectiveAwareStrategyUpdater.apply called  *)
(* on an OptimizationConfig with any of some starting weights.             *)
(***************************************************************************)
\* A dict of weights given in hundredths.
Weights(r) == [k \in DOMAIN r |-> Frac(r[k], 100)]

InitStrategy ==
    /\ arms = <<>>
    /\ epsilon = 20000
    /\ last = NoCall
    /\ imp = NoImport
    /\ state_repo = FALSE
    /\ repo = <<>>
    /\ briefs = <<>>
    /\ mc = ModeIdle
    /\ opt_weights \in {Weights(objective_weights),
                        Weights([views |-> 10, likes |-> 2]),
                        Weights([views |-> 10, likes |-> -5]),
                        Weights([views |-> 10, likes |-> -50]),
                        Weights([views |-> 0, likes |-> 0]),
                        Weights([likes |-> 1, shares |-> 99]),
                        Weights(<<>>)}
    /\ publisher = NoPublisher
    /\ client = <<>>
    /\ coord = NoCoordinator
    /\ calls = 0
    /\ pipeline = NoPipeline
    /\ loop = NoLoop

StrategyApply ==
    /\ calls < MaxApplies
    /\ \E D \in SUBSET {"engagement_delta", "share_delta", "bogus_delta"} :
       \E kpi_deltas \in [D -> {-20, 0, 30}] :
           LET w == ObjectiveAwareStrategyUpdater_apply(kpi_deltas, opt_weights)
           IN  /\ opt_weights' = w
               /\ last' = Call("ObjectiveAwareStrategyUpdater.apply",
                               [objective_weights |-> opt_weights, kpi_deltas |-> kpi_deltas],
                               [adjusted_weights |-> w])
    /\ calls' = calls + 1
    /\ UNCHANGED <<arms, epsilon, imp, state_repo, repo, briefs, mc,
                   publisher, client, coord, pipeline, loop>>

SpecStrategy == InitStrategy /\ [][StrategyApply]_vars

(***************************************************************************)
(* Claims about ObjectiveAwareStrategyUpdater.apply.                       *)
(***************************************************************************)
StrategyApplied == last.op = "ObjectiveAwareStrategyUpdater.apply"

SomePositive(w) == \E k \in DOMAIN w : w[k].num > 0
NoneNegative(w) == \A k \in DOMAIN w : w[k].num >= 0

SumsToOne == 
    /\ FSum(last.ret.adjusted_weights) = Frac(1, 1)
    /\ FSum(opt_weights) = Frac(1, 1)

\* C11 as stated: for any kpi_deltas and starting weights with at least one
\* positive weight, the adjusted_weights apply returns, and the
\* objective_weights it leaves, sum to 1.
C11_Original ==
    (StrategyApplied /\ SomePositive(last.args.objective_weights)) => SumsToOne

\* C11 amended: for any kpi_deltas and starting weights with at least one
\* positive and no negative weight, the adjusted_weights apply returns, and
\* the objective_weights it leaves, sum to 1.
C11_SumsToOneWhenNoneNegative ==
    (/\ StrategyApplied
     /\ SomePositive(last.args.objective_weights)
     /\ NoneNegative(last.args.objective_weights)) => SumsToOne

\* C11 witness: a weight of 0.02 shifted down and held at 0.01, then divided by
\* the total 0.11.
C11_Witness ==
    /\ StrategyApplied
    /\ last.args.objective_weights = Weights([views |-> 10, likes |-> 2])
    /\ "bogus_delta" \in DOMAIN last.args.kpi_deltas
    /\ opt_weights = [views |-> Frac(10, 11), likes |-> Frac(1, 11)]

(***************************************************************************)
(* ShadowTestEvaluator.                                                    *)
(*                                                                         *)
(* confidence is in hundredths; the rounded metrics are in units of 10^-4. *)
(***************************************************************************)
MaxResults == 2    \* longest list of results passed to ShadowTestEvaluator.evaluate

ShadowVariantResult(variant_id, views, saves, shares, comments, confidence) ==
    [views |-> views, comments |-> comments, shares |-> shares, saves |-> saves,
     variant_id |-> variant_id, confidence |-> confidence]

ShadowWinner(winner_variant_id, ranked, deferred) ==
    [winner_variant_id |-> winner_variant_id, ranked |-> ranked, deferred |-> deferred]

\* round(n / d, 4) for n >= 0 and d > 0. A value halfway between two multiples
\* of 10^-4 goes to whichever is nearer to the float that stands for it: either.
round4_of(n, d) ==
    LET q == (10000 * n) \div d
        rem == (10000 * n) % d
    IN  IF 2 * rem < d THEN {q}
        ELSE IF 2 * rem > d THEN {q + 1}
        ELSE {q, q + 1}

\* The entries ranked.append can build for one result.
ranked_entries(r) ==
    LET v == Max(1, r.views)
    IN  {[views |-> r.views, variant_id |-> r.variant_id, confidence |-> r.confidence,
          primary_metric |-> primary, secondary_metric |-> secondary,
          weighted_score |-> score_] :
            primary \in round4_of(r.saves + r.shares, v),
            secondary \in round4_of(r.comments, v),
            score_ \in round4_of(8 * (r.saves + r.shares) + 2 * r.comments, 10 * v)}

\* ranked.sort(key=weighted_score, reverse=True): stable, so entries of equal
\* score keep the order they were appended in.
RECURSIVE sort_ranked(_)
sort_ranked(ranked) ==
    IF ranked = <<>> THEN <<>>
    ELSE LET n == Len(ranked)
             before == sort_ranked(SubSeq(ranked, 1, n - 1))
             x == ranked[n]
             Stays(e) == e.weighted_score >= x.weighted_score
         IN  SelectSeq(before, Stays) \o <<x>>
                 \o SelectSeq(before, LAMBDA e : ~Stays(e))

\* The lists ranked can be before the sort, one entry per result.
RECURSIVE ranked_lists(_)
ranked_lists(results) ==
    IF results = <<>> THEN {<<>>}
    ELSE {<<e>> \o rest : e \in ranked_entries(Head(results)),
                          rest \in ranked_lists(Tail(results))}

\* An evaluate that declares the first ranked entry meeting both thresholds.
evaluate_first_qualifying(results, min_views) ==
    IF results = <<>> THEN {ShadowWinner(None, <<>>, TRUE)}
    ELSE {LET ranked == sort_ranked(l)
              ok == SelectSeq(ranked, LAMBDA e : ~(e.views < min_views \/ e.confidence < 65))
          IN  ShadowWinner(IF ok = <<>> THEN None ELSE ok[1].variant_id, ranked, ok = <<>>) :
             l \in ranked_lists(results)}

\* ShadowTestEvaluator.evaluate: the ShadowWinner values it can return.
evaluate(results, min_views) ==
    IF results = <<>> THEN {ShadowWinner(None, <<>>, TRUE)}
    ELSE {LET ranked == sort_ranked(l)
              top == ranked[1]
              defer == top.views < min_views \/ top.confidence < 65
          IN  ShadowWinner(IF defer THEN None ELSE top.variant_id, ranked, defer) :
             l \in ranked_lists(results)}

(***************************************************************************)
(* The shadow-test specification: evaluate applied to any list of results. *)
(***************************************************************************)
ShadowResults ==
    {ShadowVariantResult(<<"v1">>, 250, 10, 5, 5, 90),
     ShadowVariantResult(<<"v2">>, 100, 20, 0, 0, 90),
     ShadowVariantResult(<<"v3">>, 250, 30, 0, 0, 50),
     ShadowVariantResult(<<"v4">>, 0, 0, 0, 0, 90),
     ShadowVariantResult(<<"v5">>, 500, 30, 0, 10, 65),
     ShadowVariantResult(<<"v6">>, 800, 0, 0, 1, 90),
     ShadowVariantResult(<<"v7">>, 10000, 0, 0, 10, 90)}

\* A stateless component: nothing is constructed and no call has been made.
InitStateless ==
    /\ arms = <<>>
    /\ epsilon = 20000
    /\ last = NoCall
    /\ imp = NoImport
    /\ state_repo = FALSE
    /\ repo = <<>>
    /\ briefs = <<>>
    /\ mc = ModeIdle
    /\ opt_weights = objective_weights
    /\ publisher = NoPublisher
    /\ client = <<>>
    /\ coord = NoCoordinator
    /\ calls = 0
    /\ pipeline = NoPipeline
    /\ loop = NoLoop

ShadowEvaluate ==
    \E results \in SeqsUpTo(ShadowResults, MaxResults), min_views \in {200, 300} :
        \E w \in evaluate(results, min_views) :
            /\ last' = Call("ShadowTestEvaluator.evaluate",
                            [results |-> results, min_views |-> min_views], w)
            /\ UNCHANGED <<arms, epsilon, imp, state_repo, repo, briefs, mc,
                           opt_weights, publisher, client, coord, calls, pipeline, loop>>

SpecShadow == InitStateless /\ [][ShadowEvaluate]_vars

(***************************************************************************)
(* Claims about ShadowTestEvaluator.evaluate.                              *)
(***************************************************************************)
ShadowEvaluated == last.op = "ShadowTestEvaluator.evaluate"

\* The entry is below one of the two thresholds of the call.
BelowThreshold(e) == e.views < last.args.min_views \/ e.confidence < 65

\* ranked is the results ordered by weighted_score, highest first.
RankedHighestFirst ==
    LET ranked == last.ret.ranked
    IN  /\ Len(ranked) = Len(last.args.results)
        /\ \A i, j \in 1..Len(ranked) :
               i < j => ranked[i].weighted_score >= ranked[j].weighted_score

\* C13: evaluate returns deferred == True exactly when winner_variant_id is None,
\* and exactly when the input is empty or the top-ranked entry has views <
\* min_views or confidence < 0.65; otherwise the winner is the top-ranked
\* entry's variant_id, whatever the entries ranked below it are.
C13_WinnerIsTopRankedOrDeferred ==
    ShadowEvaluated =>
        /\ RankedHighestFirst
        /\ last.ret.deferred <=> (last.ret.winner_variant_id = None)
        /\ last.ret.deferred <=>
               (last.args.results = <<>> \/ BelowThreshold(last.ret.ranked[1]))
        /\ ~last.ret.deferred => last.ret.winner_variant_id = last.ret.ranked[1].variant_id

\* C13 witness: the top-ranked entry is below a threshold, the entry ranked
\* second meets both, and the call deferred.
C13_Witness ==
    /\ ShadowEvaluated
    /\ Len(last.ret.ranked) = 2
    /\ BelowThreshold(last.ret.ranked[1])
    /\ ~BelowThreshold(last.ret.ranked[2])
    /\ last.ret.deferred

(***************************************************************************)
(* NicheStrategyEngine.evaluate_results.                                   *)
(*                                                                         *)
(* follow_conversion_rate and saves_shares_per_view are in thousandths,    *)
(* retention_proxy in hundredths; the rounded means are in units of 10^-4. *)
(***************************************************************************)
MaxOutcomes == 3   \* longest list of outcomes passed to evaluate_results

ExperimentOutcome(niche_name, median_views, follow_conversion_rate, saves_shares_per_view, retention_proxy) ==
    [niche_name |-> niche_name, median_views |-> median_views,
     follow_conversion_rate |-> follow_conversion_rate,
     saves_shares_per_view |-> saves_shares_per_view,
     retention_proxy |-> retention_proxy]

\* The sort key of a row, and key(x) < key(y) as Python compares tuples.
outcome_key(row) ==
    <<row.follow_conversion_rate, row.saves_shares_per_view, row.retention_proxy,
      row.median_views>>

RECURSIVE TupleLess(_, _)
TupleLess(x, y) ==
    IF x = <<>> \/ y = <<>> THEN x = <<>> /\ y # <<>>
    ELSE IF Head(x) # Head(y) THEN Head(x) < Head(y)
    ELSE TupleLess(Tail(x), Tail(y))

\* An evaluate_results that sorts without reverse=True.
evaluate_results_ascending(snapshots) ==
    LET RECURSIVE sorted(_)
        sorted(s) ==
            IF s = <<>> THEN <<>>
            ELSE LET n == Len(s)
                     before == sorted(SubSeq(s, 1, n - 1))
                     Stays(e) == ~TupleLess(outcome_key(s[n]), outcome_key(e))
                 IN  SelectSeq(before, Stays) \o <<s[n]>>
                         \o SelectSeq(before, LAMBDA e : ~Stays(e))
        RECURSIVE total(_, _)
        total(s, field) == IF s = <<>> THEN 0 ELSE Head(s)[field] + total(Tail(s), field)
        ranked == sorted(snapshots)
        n == Len(ranked)
        winner_count == Max(1, (4 * n + 5) \div 10)
        names(s) == [i \in 1..Len(s) |-> s[i].niche_name]
    IN  IF n = 0
        THEN {[winners |-> <<>>, kill_list |-> <<>>, summary |-> [count |-> 0]]}
        ELSE {[winners |-> names(SubSeq(ranked, 1, winner_count)),
               kill_list |-> names(SubSeq(ranked, winner_count + 1, n)),
               summary |-> [count |-> n, median_follow_conversion |-> f,
                            median_retention_proxy |-> r]] :
                 f \in round4_of(total(ranked, "follow_conversion_rate"), 1000 * n),
                 r \in round4_of(total(ranked, "retention_proxy"), 100 * n)}

\* NicheStrategyEngine.evaluate_results: the dicts it can return.
evaluate_results(snapshots) ==
    LET \* sorted(snapshots, key=..., reverse=True): stable, rows of equal key
        \* keep the order they came in
        RECURSIVE sorted(_)
        sorted(s) ==
            IF s = <<>> THEN <<>>
            ELSE LET n == Len(s)
                     before == sorted(SubSeq(s, 1, n - 1))
                     Stays(e) == ~TupleLess(outcome_key(e), outcome_key(s[n]))
                 IN  SelectSeq(before, Stays) \o <<s[n]>>
                         \o SelectSeq(before, LAMBDA e : ~Stays(e))
        RECURSIVE total(_, _)
        total(s, field) == IF s = <<>> THEN 0 ELSE Head(s)[field] + total(Tail(s), field)
        ranked == sorted(snapshots)
        n == Len(ranked)
        \* max(1, round(len(ranked) * 0.4)): 0.4 * n is never halfway
        winner_count == Max(1, (4 * n + 5) \div 10)
        names(s) == [i \in 1..Len(s) |-> s[i].niche_name]
    IN  IF n = 0
        THEN {[winners |-> <<>>, kill_list |-> <<>>, summary |-> [count |-> 0]]}
        ELSE {[winners |-> names(SubSeq(ranked, 1, winner_count)),
               kill_list |-> names(SubSeq(ranked, winner_count + 1, n)),
               summary |-> [count |-> n, median_follow_conversion |-> f,
                            median_retention_proxy |-> r]] :
                 f \in round4_of(total(ranked, "follow_conversion_rate"), 1000 * n),
                 r \in round4_of(total(ranked, "retention_proxy"), 100 * n)}

(***************************************************************************)
(* The niche specification: evaluate_results applied to any outcomes.      *)
(***************************************************************************)
Outcomes ==
    {ExperimentOutcome(<<"n1">>, 3000, 20, 50, 50),
     ExperimentOutcome(<<"n2">>, 2500, 10, 30, 40),
     ExperimentOutcome(<<"n3">>, 1800, 20, 50, 50),
     ExperimentOutcome(<<"n4">>, 1800, 8, 20, 35),
     ExperimentOutcome(<<"n5">>, 100, 20, 60, 10)}

EvaluateResults ==
    \E snapshots \in SeqsUpTo(Outcomes, MaxOutcomes) :
        \E result \in evaluate_results(snapshots) :
            /\ last' = Call("evaluate_results", [performance_snapshots |-> snapshots], result)
            /\ UNCHANGED <<arms, epsilon, imp, state_repo, repo, briefs, mc,
                           opt_weights, publisher, client, coord, calls, pipeline, loop>>

SpecNiche == InitStateless /\ [][EvaluateResults]_vars

(***************************************************************************)
(* Claims about evaluate_results.                                          *)
(***************************************************************************)
ResultsEvaluated ==
    last.op = "evaluate_results" /\ last.args.performance_snapshots # <<>>

\* The names returned, winners first, are the names of the outcomes passed,
\* each as often as it was passed, in an order of descending key.
RankedByKey ==
    LET snapshots == last.args.performance_snapshots
        names == last.ret.winners \o last.ret.kill_list
        row(name) == CHOOSE o \in Outcomes : o.niche_name = name
        Count(s, x) == Cardinality({i \in 1..Len(s) : s[i] = x})
    IN  /\ Len(names) = Len(snapshots)
        /\ \A o \in Outcomes :
               Count(names, o.niche_name) = Count(snapshots, o)
        /\ \A i, j \in 1..Len(names) :
               i < j => ~TupleLess(outcome_key(row(names[i])), outcome_key(row(names[j])))

MaxRetries == 2    \* largest max_retries an InstagramPublisher is constructed with

REQUIRED_APPROVALS == {"editorial", "compliance", "rights"}

\* _enforce_approval_gate: the approvals missing, and the key it audits under.
_enforce_approval_gate(request) ==
    [key |-> IF request.idempotency_key \notin {None, <<"">>}
             THEN request.idempotency_key ELSE <<"pending">>,
     missing |-> {a \in REQUIRED_APPROVALS :
                     ~(a \in DOMAIN request.approvals /\ request.approvals[a])}]

\* request.idempotency_key or self._build_idempotency_key(request): the
\* SHA-256 of the content stands for the content.
idempotency_key(request) ==
    IF request.idempotency_key \notin {None, <<"">>} THEN request.idempotency_key
    ELSE <<"sha256", request.brief_id, request.media_url, request.caption>>

\* What one publish does: what it returns or raises, the keys seen afterwards,
\* the client calls made, whether one completed, the sleeps and the audit events.
PublishOutcome(result, raised, seen, client_calls, posted, sleeps, audit) ==
    [result |-> result, raised |-> raised, seen |-> seen,
     client_calls |-> client_calls, posted |-> posted, sleeps |-> sleeps,
     audit |-> audit]

PublishResult(success, status, key, platform_post_id, attempts) ==
    [idempotency_key |-> key, success |-> success, status |-> status,
     platform_post_id |-> platform_post_id, attempts |-> attempts]

\* The while True loop of publish from the given attempt on.
RECURSIVE publish_attempts(_, _, _, _, _, _, _)
publish_attempts(key, outcomes, max_retries, seen, attempt, sleeps, audit) ==
    IF outcomes[attempt] = "ok"
    THEN PublishOutcome(PublishResult(TRUE, "published", key, <<"ig_1">>, attempt), "none",
                        seen \cup {key}, attempt, TRUE, sleeps,
                        Append(audit, "publish_success"))
    ELSE IF outcomes[attempt] = "transient"
    THEN IF attempt >= max_retries
         THEN PublishOutcome(PublishResult(FALSE, "failed", key, None, attempt), "none",
                             seen, attempt, FALSE, sleeps,
                             audit \o <<"publish_retry", "publish_failed">>)
         ELSE publish_attempts(key, outcomes, max_retries, seen, attempt + 1,
                               Append(sleeps, 2 ^ (attempt - 1)),
                               Append(audit, "publish_retry"))
    ELSE PublishOutcome(None,
                        IF outcomes[attempt] = "malformed" THEN "KeyError" ELSE "RuntimeError",
                        seen, attempt, FALSE, sleeps, audit)

\* A publish that looks for a duplicate before it enforces the approval gate.
publish_gate_after_duplicate(request, outcomes, dry_run, max_retries, seen) ==
    LET gate == _enforce_approval_gate(request)
        key == idempotency_key(request)
    IN  IF key \in seen
        THEN PublishOutcome(PublishResult(TRUE, "duplicate_ignored", key, None, 0), "none",
                            seen, 0, FALSE, <<>>, <<"publish_attempt", "publish_duplicate">>)
        ELSE IF gate.missing # {}
        THEN PublishOutcome(None, "GovernanceApprovalError", seen, 0, FALSE, <<>>,
                            <<"publish_blocked_missing_approvals">>)
        ELSE IF dry_run
        THEN PublishOutcome(PublishResult(TRUE, "dry_run", key, None, 0), "none",
                            seen \cup {key}, 0, FALSE, <<>>,
                            <<"publish_attempt", "publish_dry_run">>)
        ELSE publish_attempts(key, outcomes, max_retries, seen, 1, <<>>, <<"publish_attempt">>)

\* A publish that retries while attempt <= max_retries.
publish_one_more_attempt(request, outcomes, dry_run, max_retries, seen) ==
    LET gate == _enforce_approval_gate(request)
        key == idempotency_key(request)
    IN  IF gate.missing # {}
        THEN PublishOutcome(None, "GovernanceApprovalError", seen, 0, FALSE, <<>>,
                            <<"publish_blocked_missing_approvals">>)
        ELSE IF key \in seen
        THEN PublishOutcome(PublishResult(TRUE, "duplicate_ignored", key, None, 0), "none",
                            seen, 0, FALSE, <<>>, <<"publish_attempt", "publish_duplicate">>)
        ELSE IF dry_run
        THEN PublishOutcome(PublishResult(TRUE, "dry_run", key, None, 0), "none",
                            seen \cup {key}, 0, FALSE, <<>>,
                            <<"publish_attempt", "publish_dry_run">>)
        ELSE publish_attempts(key, outcomes, max_retries + 1, seen, 1, <<>>,
                              <<"publish_attempt">>)

\* A publish that does not remember the key of a post it published.
publish_forgets_key(request, outcomes, dry_run, max_retries, seen) ==
    LET gate == _enforce_approval_gate(request)
        key == idempotency_key(request)
    IN  IF gate.missing # {}
        THEN PublishOutcome(None, "GovernanceApprovalError", seen, 0, FALSE, <<>>,
                            <<"publish_blocked_missing_approvals">>)
        ELSE IF key \in seen
        THEN PublishOutcome(PublishResult(TRUE, "duplicate_ignored", key, None, 0), "none",
                            seen, 0, FALSE, <<>>, <<"publish_attempt", "publish_duplicate">>)
        ELSE IF dry_run
        THEN PublishOutcome(PublishResult(TRUE, "dry_run", key, None, 0), "none",
                            seen \cup {key}, 0, FALSE, <<>>,
                            <<"publish_attempt", "publish_dry_run">>)
        ELSE [publish_attempts(key, outcomes, max_retries, seen, 1, <<>>,
                               <<"publish_attempt">>) EXCEPT !.seen = seen]

\* A publish that sleeps once more after its final failed attempt.
publish_sleeps_after_last_failure(request, outcomes, dry_run, max_retries, seen) ==
    LET gate == _enforce_approval_gate(request)
        key == idempotency_key(request)
        r == publish_attempts(key, outcomes, max_retries, seen, 1, <<>>, <<"publish_attempt">>)
    IN  IF gate.missing # {}
        THEN PublishOutcome(None, "GovernanceApprovalError", seen, 0, FALSE, <<>>,
                            <<"publish_blocked_missing_approvals">>)
        ELSE IF key \in seen
        THEN PublishOutcome(PublishResult(TRUE, "duplicate_ignored", key, None, 0), "none",
                            seen, 0, FALSE, <<>>, <<"publish_attempt", "publish_duplicate">>)
        ELSE IF dry_run
        THEN PublishOutcome(PublishResult(TRUE, "dry_run", key, None, 0), "none",
                            seen \cup {key}, 0, FALSE, <<>>,
                            <<"publish_attempt", "publish_dry_run">>)
        ELSE IF r.raised = "none" /\ ~r.posted
        THEN [r EXCEPT !.sleeps = Append(r.sleeps, 2 ^ (r.client_calls - 1))]
        ELSE r

\* InstagramPublisher.publish.
publish(request, outcomes, dry_run, max_retries, seen) ==
    LET gate == _enforce_approval_gate(request)
        key == idempotency_key(request)
    IN  IF gate.missing # {}
        THEN PublishOutcome(None, "GovernanceApprovalError", seen, 0, FALSE, <<>>,
                            <<"publish_blocked_missing_approvals">>)
        ELSE IF key \in seen
        THEN PublishOutcome(PublishResult(TRUE, "duplicate_ignored", key, None, 0), "none",
                            seen, 0, FALSE, <<>>, <<"publish_attempt", "publish_duplicate">>)
        ELSE IF dry_run
        THEN PublishOutcome(PublishResult(TRUE, "dry_run", key, None, 0), "none",
                            seen \cup {key}, 0, FALSE, <<>>,
                            <<"publish_attempt", "publish_dry_run">>)
        ELSE publish_attempts(key, outcomes, max_retries, seen, 1, <<>>, <<"publish_attempt">>)

(***************************************************************************)
(* The publisher specification: one InstagramPublisher, constructed with   *)
(* any dry_run and max_retries, and any sequence of publish calls on it.   *)
(***************************************************************************)
\* Requests for one piece of content, with and without a caller's key, with
\* all approvals, with one missing and with one refused (scheduled_at is None).
PublishRequests ==
    {[brief_id |-> <<"brief-1">>, idempotency_key |-> k, approvals |-> a,
      media_url |-> <<"https://cdn/reel.mp4">>, caption |-> <<"Caption">>] :
        k \in {None, <<"">>, <<"k1">>},
        a \in {[editorial |-> TRUE, compliance |-> TRUE, rights |-> TRUE],
               [editorial |-> TRUE, compliance |-> TRUE],
               [editorial |-> TRUE, compliance |-> FALSE, rights |-> TRUE]}}

\* The client's behaviours that differ for a publish: some transient failures,
\* then responses, another exception or responses without a post id.
ClientOutcomes ==
    {[i \in 1..(MaxRetries + 1) |-> IF i <= failures THEN "transient" ELSE then] :
        failures \in 0..(MaxRetries + 1), then \in {"ok", "error", "malformed"}}

InitPublisher ==
    /\ arms = <<>>
    /\ epsilon = 20000
    /\ last = NoCall
    /\ imp = NoImport
    /\ state_repo = FALSE
    /\ repo = <<>>
    /\ briefs = <<>>
    /\ mc = ModeIdle
    /\ opt_weights = objective_weights
    /\ \E dry_run \in BOOLEAN, max_retries \in 0..MaxRetries :
           publisher = [present |-> TRUE, seen |-> {}, max_retries |-> max_retries,
                        dry_run |-> dry_run]
    /\ client = <<>>
    /\ coord = NoCoordinator
    /\ calls = 0
    /\ pipeline = NoPipeline
    /\ loop = NoLoop

\* publish(request); client remembers, per key, the publish_post calls that
\* returned a post id and whether a publish ended as failed.
Publish ==
    \E request \in PublishRequests, outcomes \in ClientOutcomes :
        LET r == publish(request, outcomes, publisher.dry_run, publisher.max_retries,
                         publisher.seen)
            key == idempotency_key(request)
            was == IF key \in DOMAIN client THEN client[key]
                   ELSE [posted |-> 0, failed |-> FALSE]
            failed == r.raised = "none" /\ r.result.status = "failed"
        IN  /\ publisher' = [publisher EXCEPT !.seen = r.seen]
            /\ client' = IF r.client_calls = 0 THEN client
                         ELSE [k \in DOMAIN client \cup {key} |->
                                  IF k # key THEN client[k]
                                  ELSE [posted |-> was.posted + (IF r.posted THEN 1 ELSE 0),
                                        failed |-> was.failed \/ failed]]
            /\ last' = Call("publish",
                            [request |-> request, seen |-> publisher.seen,
                             outcomes |-> outcomes],
                            r)
            /\ UNCHANGED <<arms, epsilon, imp, state_repo, repo, briefs, mc,
                           opt_weights, coord, calls, pipeline, loop>>

SpecPublisher == InitPublisher /\ [][Publish]_vars

(***************************************************************************)
(* Claims about InstagramPublisher.publish.                                *)
(***************************************************************************)
PublishCalled == last.op = "publish"

\* The key of the last publish, and whether its request has every approval.
KeyPublished == idempotency_key(last.args.request)

AllApproved ==
    \A a \in {"editorial", "compliance", "rights"} :
        a \in DOMAIN last.args.request.approvals /\ last.args.request.approvals[a]

\* The last publish returned duplicate_ignored without calling the client.
DuplicateIgnored ==
    /\ last.ret.raised = "none"
    /\ last.ret.result.success
    /\ last.ret.result.status = "duplicate_ignored"
    /\ last.ret.result.attempts = 0
    /\ last.ret.client_calls = 0

C16_BoundedRetry ==
    (PublishCalled /\ AllApproved /\ publisher.max_retries >= 1) =>
        /\ last.ret.client_calls <= publisher.max_retries
        /\ (~publisher.dry_run /\ KeyPublished \notin last.args.seen) =>
              /\ last.ret.client_calls >= 1
              /\ (\A i \in 1..publisher.max_retries : last.args.outcomes[i] = "transient") =>
                    /\ last.ret.raised = "none"
                    /\ ~last.ret.result.success
                    /\ last.ret.result.status = "failed"
                    /\ last.ret.result.attempts = publisher.max_retries
                    /\ KeyPublished \notin publisher.seen

\* C16 witness: a key whose publish had failed was published at the last of
\* two attempts.
C16_Witness ==
    /\ PublishCalled
    /\ publisher.max_retries = 2
    /\ last.ret.raised = "none"
    /\ last.ret.result.status = "published"
    /\ last.ret.result.attempts = 2
    /\ KeyPublished \in DOMAIN client
    /\ client[KeyPublished].failed

MaxAnalytics == 2  \* process_after_analytics calls made on one AdaptiveCycleCoordinator

\* MonetizationAnalyst.evaluate with the default weights (0.65, 0.35) and
\* intent_baseline 0.03: the MonetizationInsights it can return.
MonetizationAnalyst_evaluate(metrics) ==
    LET Metric(k) == IF k \in DOMAIN metrics THEN metrics[k] ELSE 0
        v == Max(1, Metric("views"))
        growth == Min(v, 8 * (Metric("shares") + Metric("saves")))
        monetization == Min(v, 12 * (Metric("intent_comments") + Metric("profile_actions")))
    IN  {[monetization_score |-> m, growth_score |-> g, total_objective |-> t,
          drift_flag |-> 100 * Metric("intent_comments") < 3 * v /\ 10 * growth > 4 * v] :
            m \in round4_of(monetization, v),
            g \in round4_of(growth, v),
            t \in round4_of(65 * growth + 35 * monetization, 100 * v)}

\* AdaptiveLoopFlags: any setting of the six flags.
AdaptiveLoopFlags ==
    [{"enable_experiment_lifecycle", "enable_learning_loop", "enable_objective_strategy",
      "enable_mode_controller", "enable_shadow_testing",
      "enable_monetization_analytics"} -> BOOLEAN]

\* A test of self.flags that takes the learning loop as always enabled.
loop_enabled_learning_always(flags, name) ==
    name = "enable_learning_loop" \/ flags[name]

\* if self.flags.enable_<name>
loop_enabled(flags, name) == flags[name]

\* A sink that is called whenever one is configured.
decision_sink_calls_whenever_configured(sink, trace_id, updates) ==
    IF sink THEN <<[trace_id |-> trace_id, updates |-> updates]>> ELSE <<>>

\* if self.decision_sink and updates: self.decision_sink({...}): the payloads
\* the sink is called with.
decision_sink_calls(sink, trace_id, updates) ==
    IF sink /\ DOMAIN updates # {}
    THEN <<[trace_id |-> trace_id, updates |-> updates]>>
    ELSE <<>>

\* AdaptiveCycleCoordinator.process_after_analytics on a coordinator with the
\* given flags and sink, an OptimizationConfig holding eps, weights and
\* min_sample, and a lifecycle manager over the arms a: the outcomes it can
\* have. An outcome is what the call raises, the updates it returns, the
\* sub-loops entered and the sink call in the order they happen, the payloads
\* the sink got, the epsilon_exploration and objective_weights left in the
\* OptimizationConfig, and the records upserted.
process_after_analytics(analytics_payload, trace_id, flags, sink, eps, weights, a, has_repo, min_sample) ==
    LET CycleOutcome(raised, updates, order_, sink_calls, eps_, weights_, wrote_) ==
            [epsilon |-> eps_, wrote |-> wrote_, weights |-> weights_, raised |-> raised,
             updates |-> updates, sink_calls |-> sink_calls, order |-> order_]
        Get(k, default) == IF k \in DOMAIN analytics_payload THEN analytics_payload[k]
                           ELSE default
        On(name) == loop_enabled(flags, name)
        Entered(name, key) == IF On(name) THEN <<key>> ELSE <<>>
        \* experiment lifecycle
        exp == Get("experiment", <<>>)
        promoting == /\ On("enable_experiment_lifecycle")
                     /\ "experiment_id" \in DOMAIN exp
                     /\ "variants" \in DOMAIN exp
                     /\ exp.variants # <<>>
        promo == promote_winner(a, has_repo, exp.experiment_id, exp.variants, min_sample)
        wrote == IF ~promoting THEN <<>>
                 ELSE promo.wrote \o
                      (IF promo.result.promoted /\ promo.result.winner # None
                       THEN archive_experiment(has_repo, exp.experiment_id) ELSE <<>>)
        lifecycle == IF ~promoting THEN <<>>
                     ELSE "experiment_lifecycle" :>
                              [winner |-> promo.result.winner,
                               promoted |-> promo.result.promoted]
        \* shadow testing: ShadowVariantResult(**row) raises TypeError for a
        \* row without every field
        rows == Get("shadow_test_results", <<>>)
        malformed == /\ On("enable_shadow_testing")
                     /\ \E i \in 1..Len(rows) :
                            DOMAIN rows[i] # {"variant_id", "views", "saves", "shares",
                                              "comments", "confidence"}
        shadows == IF On("enable_shadow_testing") THEN evaluate(rows, 200) ELSE {None}
        \* learning loop
        learned == LearningLoopUpdater_apply(Get("observed_scores", <<>>),
                                             Get("predicted_scores", <<>>), eps)
        eps_learned == IF On("enable_learning_loop") THEN learned.epsilon ELSE eps
        learning == IF ~On("enable_learning_loop") THEN <<>>
                    ELSE "learning_loop" :>
                             [mean_error |-> learned.update.mean_error,
                              sample_count |-> learned.update.sample_count,
                              mean_absolute_error |-> learned.update.mean_absolute_error,
                              epsilon_exploration |-> eps_learned]
        \* objective strategy
        adjusted_weights == IF On("enable_objective_strategy")
                            THEN ObjectiveAwareStrategyUpdater_apply(
                                     Get("kpi_deltas", <<>>), weights)
                            ELSE weights
        strategy == IF ~On("enable_objective_strategy") THEN <<>>
                    ELSE "objective_strategy" :>
                             [adjusted_weights |-> adjusted_weights,
                              objective |-> Get("objective", "engagement")]
        \* mode controller
        decisions == IF ~On("enable_mode_controller") THEN {None}
                     ELSE decide(Get("current_mode", "exploit"),
                                 Get("explore_coef", eps_learned),
                                 Get("mode_inputs", ModeInputs(50, 50, 0, 0, 0, 12, 0, 50)))
        \* monetization analytics
        insights == IF ~On("enable_monetization_analytics") THEN {None}
                    ELSE MonetizationAnalyst_evaluate(Get("monetization_metrics", <<>>))
        order == Entered("enable_experiment_lifecycle", "experiment_lifecycle")
                     \o Entered("enable_shadow_testing", "shadow_testing")
                     \o Entered("enable_learning_loop", "learning_loop")
                     \o Entered("enable_objective_strategy", "objective_strategy")
                     \o Entered("enable_mode_controller", "mode_controller")
                     \o Entered("enable_monetization_analytics", "monetization_analytics")
    IN  IF malformed
        THEN {CycleOutcome("TypeError", None,
                           Entered("enable_experiment_lifecycle", "experiment_lifecycle")
                               \o <<"shadow_testing">>,
                           <<>>, eps, weights, wrote)}
        ELSE {LET updates ==
                      lifecycle
                      @@ (IF ~On("enable_shadow_testing") THEN <<>>
                          ELSE "shadow_testing" :>
                                   [winner_variant_id |-> shadow.winner_variant_id,
                                    ranked |-> shadow.ranked,
                                    deferred |-> shadow.deferred])
                      @@ learning
                      @@ strategy
                      @@ (IF ~On("enable_mode_controller") THEN <<>>
                          ELSE "mode_controller" :> decision)
                      @@ (IF ~On("enable_monetization_analytics") THEN <<>>
                          ELSE "monetization_analytics" :> insight)
                  sink_calls == decision_sink_calls(sink, trace_id, updates)
              IN  CycleOutcome("none", updates,
                               order \o (IF sink_calls # <<>> THEN <<"decision_sink">>
                                         ELSE <<>>),
                               sink_calls,
                               IF ~On("enable_mode_controller") THEN eps_learned
                               ELSE decision.explore_coef,
                               adjusted_weights, wrote) :
                 shadow \in shadows, decision \in decisions, insight \in insights}

(***************************************************************************)
(* The adaptive-cycle specification: one AdaptiveCycleCoordinator with any *)
(* flags, with or without a decision sink, over an OptimizationConfig with *)
(* min_sample_size_for_winner 2 and a lifecycle manager with a state       *)
(* repository whose optimizer has registered two outcomes of variant a.    *)
(***************************************************************************)
\* Payloads: none of the keys the sub-loops read, all of them, all of them
\* with a shadow row that lacks fields, and some of them with an experiment
\* whose variant has no outcome.
AnalyticsPayloads ==
    LET experiment(variant) ==
            [experiment |-> [experiment_id |-> <<"e1">>, variants |-> <<variant>>]]
        shadow(row) == [shadow_test_results |-> <<row>>]
        rest == [current_mode |-> "exploit", explore_coef |-> 5000,
                 kpi_deltas |-> [engagement_delta |-> -20], objective |-> "reach",
                 observed_scores |-> <<30>>, predicted_scores |-> <<10>>,
                 mode_inputs |-> ModeInputs(55, 65, 0, 0, 2, 12, 0, 59),
                 monetization_metrics |->
                     [views |-> 1000, shares |-> 20, saves |-> 30,
                      intent_comments |-> 45, profile_actions |-> 18]]
    IN  {<<>>,
         experiment(<<"a">>) @@ shadow(ShadowVariantResult(<<"v1">>, 250, 10, 5, 5, 90))
             @@ rest,
         experiment(<<"a">>) @@ shadow([variant_id |-> <<"v1">>]) @@ rest,
         experiment(<<"x", "b">>) @@ [observed_scores |-> <<10>>, predicted_scores |-> <<10>>]}

InitCycle ==
    /\ arms = (_arm_key(<<"e1">>, <<"a">>) :> ArmStats(2, 50))
    /\ epsilon = 20000
    /\ last = NoCall
    /\ imp = NoImport
    /\ state_repo = TRUE
    /\ repo = <<>>
    /\ briefs = <<>>
    /\ mc = ModeIdle
    /\ opt_weights = Weights(objective_weights)
    /\ publisher = NoPublisher
    /\ client = <<>>
    /\ \E flags \in AdaptiveLoopFlags, sink \in BOOLEAN :
           coord = [present |-> TRUE, min_sample_size_for_winner |-> 2,
                    flags |-> flags, decision_sink |-> sink]
    /\ calls = 0
    /\ pipeline = NoPipeline
    /\ loop = NoLoop

\* process_after_analytics(analytics_payload, trace_id=trace_id)
ProcessAfterAnalytics ==
    /\ calls < MaxAnalytics
    /\ \E analytics_payload \in AnalyticsPayloads, trace_id \in {<<"trace-1">>, <<"trace-2">>} :
       \E out \in process_after_analytics(analytics_payload, trace_id, coord.flags,
                                          coord.decision_sink, epsilon, opt_weights, arms,
                                          state_repo, coord.min_sample_size_for_winner) :
           /\ epsilon' = out.epsilon
           /\ opt_weights' = out.weights
           /\ repo' = upsert_arm_states(repo, out.wrote)
           /\ last' = CallW("process_after_analytics",
                            [arms |-> arms, repo |-> repo, objective_weights |-> opt_weights,
                             epsilon_exploration |-> epsilon, trace_id |-> trace_id,
                             analytics_payload |-> analytics_payload],
                            out, out.wrote)
    /\ calls' = calls + 1
    /\ UNCHANGED <<arms, imp, state_repo, briefs, mc, publisher, client, coord, pipeline, loop>>

SpecCycle == InitCycle /\ [][ProcessAfterAnalytics]_vars

(***************************************************************************)
(* Claims about AdaptiveCycleCoordinator.process_after_analytics.          *)
(***************************************************************************)
CycleCalled == last.op = "process_after_analytics"

\* The flag that gates the sub-loop reporting under a key of updates.
FlagOf(key) ==
    CASE key = "experiment_lifecycle" -> "enable_experiment_lifecycle"
      [] key = "shadow_testing" -> "enable_shadow_testing"
      [] key = "learning_loop" -> "enable_learning_loop"
      [] key = "objective_strategy" -> "enable_objective_strategy"
      [] key = "mode_controller" -> "enable_mode_controller"
      [] key = "monetization_analytics" -> "enable_monetization_analytics"

EnabledLoops == {key \in {"experiment_lifecycle", "shadow_testing", "learning_loop",
                          "objective_strategy", "mode_controller",
                          "monetization_analytics"} : coord.flags[FlagOf(key)]}

\* C18: a call of process_after_analytics invokes the decision sink at most
\* once; a call that returns invokes it exactly when a sink is configured and
\* the returned updates are not empty, and then once, after every enabled
\* sub-loop, with the call's trace_id and the updates returned; a call that
\* raises does not invoke it.
C18_SinkOnceWithCompleteUpdates ==
    CycleCalled =>
        /\ Len(last.ret.sink_calls) <= 1
        /\ last.ret.raised = "none" =>
              (Len(last.ret.sink_calls) = 1
                  <=> (coord.decision_sink /\ DOMAIN last.ret.updates # {}))
        /\ last.ret.raised # "none" => last.ret.sink_calls = <<>>
        /\ last.ret.sink_calls # <<>> =>
              /\ last.ret.sink_calls[1] =
                     [trace_id |-> last.args.trace_id, updates |-> last.ret.updates]
              /\ last.ret.order[Len(last.ret.order)] = "decision_sink"
              /\ EnabledLoops = Range(SubSeq(last.ret.order, 1, Len(last.ret.order) - 1))

\* C18 witness: the second call on a coordinator with every sub-loop enabled
\* reported all six updates to the sink under its own trace_id.
C18_Witness ==
    /\ CycleCalled
    /\ calls = 2
    /\ last.args.trace_id = <<"trace-2">>
    /\ Len(last.ret.sink_calls) = 1
    /\ Cardinality(DOMAIN last.ret.sink_calls[1].updates) = 6

\* What the call left of the state it was made in.
ConfigUnchanged ==
    /\ epsilon = last.args.epsilon_exploration
    /\ opt_weights = last.args.objective_weights

\* C19: the keys of the returned updates belong to enabled sub-loops, and a
\* disabled sub-loop neither raises nor writes what it would write; with every
\* flag disabled the call returns an empty mapping, leaves the
\* OptimizationConfig, the arm state and the state repository as they were and
\* does not invoke the sink, whatever the payload.
C19_FlagGating ==
    CycleCalled =>
        /\ last.ret.raised = "none" => DOMAIN last.ret.updates \subseteq EnabledLoops
        /\ "shadow_testing" \notin EnabledLoops => last.ret.raised = "none"
        /\ "experiment_lifecycle" \notin EnabledLoops =>
              last.wrote = <<>> /\ repo = last.args.repo
        /\ {"learning_loop", "mode_controller"} \cap EnabledLoops = {} =>
              epsilon = last.args.epsilon_exploration
        /\ "objective_strategy" \notin EnabledLoops =>
              opt_weights = last.args.objective_weights
        /\ EnabledLoops = {} =>
              /\ last.ret.raised = "none"
              /\ DOMAIN last.ret.updates = {}
              /\ ConfigUnchanged
              /\ arms = last.args.arms
              /\ repo = last.args.repo
              /\ last.ret.sink_calls = <<>>

\* C19 witness: a coordinator with a sink and no flag enabled was given the
\* payload with every key and the shadow row that lacks fields.
C19_Witness ==
    /\ CycleCalled
    /\ EnabledLoops = {}
    /\ coord.decision_sink
    /\ "shadow_test_results" \in DOMAIN last.args.analytics_payload
    /\ DOMAIN last.args.analytics_payload.shadow_test_results[1] = {"variant_id"}
    /\ "experiment" \in DOMAIN last.args.analytics_payload
    /\ DOMAIN last.ret.updates = {}

(***************************************************************************)
(* production_loop: InstagramGraphPublisher and PipelineWorker.            *)
(*                                                                         *)
(* One run of one worker is followed.  A JSON column that is NULL and an   *)
(* empty dict returned by a stage are both <<>> (falsy); a stored payload  *)
(* is a record.  A string built with an f-string is the sequence of its    *)
(* pieces, so f"sim-{run_id}" is <<"sim-">> \o run_id.  The columns of the *)
(* pipeline_runs row are those process and the stages read and write; the  *)
(* payload columns are NULL until a stage stores one (enqueue sets id,     *)
(* topic, status and attempts only).                                       *)
(***************************************************************************)
MaxProcess == 3    \* process(run_id) calls made on the run

\* What urllib.request.urlopen does on the two Graph API calls of a live
\* publish (create the media container, publish it): it returns a JSON body
\* with an "id", returns one without, or raises.
NetOutcomes ==
    {<<"ok", "ok">>, <<"raise", "ok">>, <<"no_id", "ok">>, <<"ok", "raise">>, <<"ok", "no_id">>}

\* InstagramGraphPublisher.publish_or_schedule with os.environ = env: the
\* payload it returns or the exception it raises, and the urlopen calls made.
publish_or_schedule(env, media_path, caption, run_id, net) ==
    LET token == env.INSTAGRAM_ACCESS_TOKEN
        account_id == env.INSTAGRAM_BUSINESS_ACCOUNT_ID
        falsy(s) == s = None \/ s = <<"">>
        Raises(e, n) == [raised |-> e, payload |-> <<>>, urlopen_calls |-> n]
    IN  IF falsy(token) \/ falsy(account_id)
        THEN [raised |-> "none",
              payload |-> [caption |-> caption, status |-> "simulated",
                           platform_post_id |-> <<"sim-">> \o run_id,
                           media_path |-> media_path, platform |-> "instagram"],
              urlopen_calls |-> 0]
        ELSE IF net[1] = "raise" THEN Raises("URLError", 1)
        ELSE IF net[1] = "no_id" THEN Raises("KeyError", 1)      \* creation["id"]
        ELSE IF net[2] = "raise" THEN Raises("URLError", 2)
        ELSE [raised |-> "none",
              payload |-> [status |-> "published",
                           platform_post_id |-> IF net[2] = "no_id"
                                                THEN <<"None">>   \* str(published.get("id"))
                                                ELSE <<"post-1">>,
                           media_path |-> media_path, platform |-> "instagram",
                           creation_id |-> <<"creation-1">>],
              urlopen_calls |-> 2]

\* PipelineWorker._stage_publish on the progress s of a process call:
\* s.run is the row, s.raised the exception in flight ("none": none),
\* s.publisher the outcome of the publish_or_schedule call made (<<>>: none).
_stage_publish_always(s, env, run_id, net) ==
    LET run == s.run
        script == run.script_payload.script
        result == publish_or_schedule(env, run.render_payload.media_path,
                                      <<script.hook, "\n\n", script.cta>>, run_id, net)
    IN  IF run.status = "blocked" THEN s
        ELSE IF DOMAIN run.render_payload = {} THEN [s EXCEPT !.raised = "TypeError"]
        ELSE IF result.raised # "none"
             THEN [s EXCEPT !.raised = result.raised, !.publisher = result]
             ELSE [s EXCEPT !.run.publish_payload = result.payload,
                            !.run.current_stage = "publish",
                            !.publisher = result]

\* A _stage_publish that publishes whatever the status of the run, and without
\* a rendered artifact under the path the renderer would have used.
_stage_publish_unrendered(s, env, run_id, net) ==
    LET run == s.run
        script == run.script_payload.script
        media_path == IF DOMAIN run.render_payload = {}
                      THEN <<"artifacts/">> \o run_id \o <<".mp4">>
                      ELSE run.render_payload.media_path
        result == publish_or_schedule(env, media_path,
                                      <<script.hook, "\n\n", script.cta>>, run_id, net)
    IN  IF DOMAIN run.publish_payload # {} THEN s
        ELSE IF result.raised # "none"
             THEN [s EXCEPT !.raised = result.raised, !.publisher = result]
             ELSE [s EXCEPT !.run.publish_payload = result.payload,
                            !.run.current_stage = "publish",
                            !.publisher = result]

_stage_publish(s, env, run_id, net) ==
    LET run == s.run
        script == run.script_payload.script
        result == publish_or_schedule(env, run.render_payload.media_path,
                                      <<script.hook, "\n\n", script.cta>>, run_id, net)
    IN  IF DOMAIN run.publish_payload # {} THEN s
        ELSE IF run.status = "blocked" THEN s
        \* run.render_payload["media_path"] on a NULL column
        ELSE IF DOMAIN run.render_payload = {} THEN [s EXCEPT !.raised = "TypeError"]
        ELSE IF result.raised # "none"
             \* the session is rolled back: the row keeps no publish_payload
             THEN [s EXCEPT !.raised = result.raised, !.publisher = result]
             ELSE [s EXCEPT !.run.publish_payload = result.payload,
                            !.run.current_stage = "publish",
                            !.publisher = result]

\* PipelineWorker.process(run_id) on the row `run`.  fetched: the keyword of
\* the first item self.trends.fetch yields ("fail": in all three tries it
\* yields nothing or raises); net, insights: what urlopen
\* does for the publisher and for InstagramGraphAnalytics; interrupted_after:
\* the process dies once that many stages have committed (-1: it does not).
process(run, env, run_id, fetched, net, insights, interrupted_after) ==
    LET truthy(p) == DOMAIN p # {}
        blocked_terms == {"hate", "violence", "medical cure", "guaranteed income"}
        Ran(s, k, t) ==
            IF s.raised # "none" THEN s
            ELSE IF t.raised = "none" /\ interrupted_after = k
                 THEN [t EXCEPT !.raised = "killed"]
                 ELSE t
        Enter(s, name) == [s EXCEPT !.stages = Append(@, name)]
        _stage_trends(s) ==
            IF truthy(s.run.trend_payload) THEN s
            \* third failure: the status "failed" set on the row is rolled back
            ELSE IF fetched = "fail" THEN [s EXCEPT !.raised = "RuntimeError"]
            ELSE [s EXCEPT !.run.trend_payload = [selected |-> [keyword |-> fetched]],
                           !.run.current_stage = "trends"]
        _stage_script(s) ==
            LET kw == s.run.trend_payload.selected.keyword
                \* PolicyGuard.validate: a blocked term occurs in the script's text
                allowed == kw \notin blocked_terms
            IN  IF truthy(s.run.script_payload) THEN s
                ELSE [s EXCEPT !.run.status = IF allowed THEN @ ELSE "blocked",
                               !.run.script_payload =
                                   [script |-> [hook |-> <<"Everyone is missing this: ", kw>>,
                                                cta |-> "Follow for daily tactical explainers."],
                                    approved |-> allowed],
                               !.run.current_stage = "script"]
        _stage_render(s) ==
            IF truthy(s.run.render_payload) THEN s
            ELSE IF ~s.run.script_payload.approved THEN s
            ELSE [s EXCEPT !.run.render_payload =
                               [media_path |-> <<"artifacts/">> \o run_id \o <<".mp4">>,
                                cached |-> TRUE],
                           !.run.current_stage = "render"]
        _stage_metrics(s) ==
            LET post == s.run.publish_payload.platform_post_id
                token == env.INSTAGRAM_ACCESS_TOKEN
                simulated == token = None \/ token = <<"">> \/ Head(post) = "sim-"
            IN  IF truthy(s.run.metrics_payload) THEN s
                ELSE IF ~truthy(s.run.publish_payload) THEN s
                ELSE IF ~simulated /\ insights = "raise" THEN [s EXCEPT !.raised = "URLError"]
                ELSE [s EXCEPT !.run.metrics_payload =
                                   [metrics |-> [views |-> IF simulated THEN 1200 ELSE 0],
                                    platform_post_id |-> post, run_id |-> run_id],
                               !.run.current_stage = "metrics"]
        _stage_learning(s) ==
            IF ~truthy(s.run.script_payload) \/ ~truthy(s.run.metrics_payload) THEN s
            ELSE IF s.run.learned THEN s
            ELSE [s EXCEPT !.run.learned = TRUE]
        Returns(s) ==
            [s EXCEPT !.returned = TRUE,
                      !.result = [metrics |-> s.run.metrics_payload, status |-> "completed",
                                  publish |-> s.run.publish_payload, run_id |-> run_id]]
        s0 == [publisher |-> <<>>, result |-> <<>>, raised |-> "none", run |-> run,
               stages |-> <<>>, returned |-> FALSE]
        s1 == [s0 EXCEPT !.run.status = "running", !.run.attempts = @ + 1]
        t0 == IF interrupted_after = 0 THEN [s1 EXCEPT !.raised = "killed"] ELSE s1
        t1 == Ran(t0, 1, _stage_trends(Enter(t0, "trends")))
        t2 == Ran(t1, 2, _stage_script(Enter(t1, "script")))
        t3 == Ran(t2, 3, _stage_render(Enter(t2, "render")))
        t4 == Ran(t3, 4, _stage_publish(Enter(t3, "publish"), env, run_id, net))
        t5 == Ran(t4, 5, _stage_metrics(Enter(t4, "metrics")))
        t6 == Ran(t5, 6, _stage_learning(Enter(t5, "learning")))
    IN  IF run.status = "completed" THEN Returns(s0)
        ELSE IF t6.raised # "none" THEN t6
        ELSE Returns([t6 EXCEPT !.run.status = "completed"])

\* worker.enqueue(topic) on a new database, under each environment.
InitPipeline ==
    /\ arms = <<>>
    /\ epsilon = 20000
    /\ last = NoCall
    /\ imp = NoImport
    /\ state_repo = FALSE
    /\ repo = <<>>
    /\ briefs = <<>>
    /\ mc = ModeIdle
    /\ opt_weights = objective_weights
    /\ publisher = NoPublisher
    /\ client = <<>>
    /\ coord = NoCoordinator
    /\ calls = 0
    /\ \E token \in {None, <<"">>, <<"token">>}, account_id \in {None, <<"acct">>},
          allow \in {None, <<"true">>}, granted \in {None, <<"true">>},
          approved \in {None, <<"true">>} :
           pipeline = [present |-> TRUE,
                       env |-> [INSTAGRAM_ACCESS_TOKEN |-> token,
                                INSTAGRAM_BUSINESS_ACCOUNT_ID |-> account_id,
                                ALLOW_AUTONOMOUS_PUBLISH |-> allow,
                                PUBLISH_APPROVAL_GRANTED |-> granted,
                                GOVERNANCE_APPROVED |-> approved],
                       run_id |-> <<"run-1">>,
                       run |-> [status |-> "queued", attempts |-> 0, learned |-> FALSE,
                                script_payload |-> <<>>, render_payload |-> <<>>,
                                publish_payload |-> <<>>, current_stage |-> "None",
                                trend_payload |-> <<>>, metrics_payload |-> <<>>],
                       publish_calls |-> 0]
    /\ loop = NoLoop

\* worker.process(run_id); publish_calls counts the publish_or_schedule calls
\* made for the run so far.
Process ==
    /\ pipeline.present
    /\ calls < MaxProcess
    /\ \E fetched \in {"fail", "AI workflow automation", "guaranteed income"},
          net \in NetOutcomes, insights \in {"ok", "raise"}, interrupted_after \in -1 .. 6 :
           LET out == process(pipeline.run, pipeline.env, pipeline.run_id, fetched,
                              net, insights, interrupted_after)
           IN  /\ pipeline' = [pipeline EXCEPT
                                   !.run = out.run,
                                   !.publish_calls = IF DOMAIN out.publisher = {}
                                                     THEN @ ELSE @ + 1]
               /\ last' = CallW("process", [run |-> pipeline.run], out, <<>>)
    /\ calls' = calls + 1
    /\ UNCHANGED <<arms, epsilon, imp, state_repo, repo, briefs, mc, opt_weights,
                   publisher, client, coord, loop>>

SpecPipeline == InitPipeline /\ [][Process]_vars

(***************************************************************************)
(* Claims about InstagramGraphPublisher and PipelineWorker.                *)
(***************************************************************************)
IsSet(v) == v # None /\ v # <<"">>

PublisherCalled == last.op = "process" /\ DOMAIN last.ret.publisher # {}

LiveAllowed ==
    /\ IsSet(pipeline.env.INSTAGRAM_ACCESS_TOKEN)
    /\ IsSet(pipeline.env.INSTAGRAM_BUSINESS_ACCOUNT_ID)
    /\ IsSet(pipeline.env.ALLOW_AUTONOMOUS_PUBLISH)
    /\ IsSet(pipeline.env.PUBLISH_APPROVAL_GRANTED)
    /\ IsSet(pipeline.env.GOVERNANCE_APPROVED)

\* C23: publish_or_schedule takes the live path (makes a network call) only
\* when the access token, the account id and the three approval signals
\* ALLOW_AUTONOMOUS_PUBLISH, PUBLISH_APPROVAL_GRANTED and GOVERNANCE_APPROVED
\* are all set; in every other case it makes no network call and returns
\* status "simulated", platform_post_id "sim-{run_id}" and a reason.
C23_LivePathNeedsApprovals ==
    PublisherCalled =>
        LET r == last.ret.publisher
        IN  /\ r.urlopen_calls > 0 => LiveAllowed
            /\ ~LiveAllowed =>
                   /\ r.urlopen_calls = 0
                   /\ r.raised = "none"
                   /\ r.payload.status = "simulated"
                   /\ r.payload.platform_post_id = <<"sim-">> \o pipeline.run_id
                   /\ "reason" \in DOMAIN r.payload

SamePayload(p, q) == DOMAIN p = DOMAIN q /\ (DOMAIN p # {} => p = q)

\* C24 as stated: across the process calls made for one run,
\* publish_or_schedule is invoked at most once, every call that returns
\* after a publish payload was stored returns that payload, and process on a
\* completed run re-runs no stage.
C24_Original ==
    [][/\ pipeline'.publish_calls <= 1
       /\ (DOMAIN pipeline.run.publish_payload # {} /\ last'.ret.returned)
              => SamePayload(last'.ret.result.publish, pipeline.run.publish_payload)
       /\ pipeline.run.status = "completed" => last'.ret.stages = <<>>]_vars

\* C24 (amended): publish_or_schedule returns at most once for the run: once
\* its payload is stored it is never invoked again and the stored payload
\* never changes (a call in which it raised is made again by the next
\* process call); every process call that returns, returns the stored
\* payload; process on a completed run runs no stage and changes nothing.
C24_PublishReturnsOnce ==
    [][/\ DOMAIN pipeline.run.publish_payload # {}
              => /\ DOMAIN last'.ret.publisher = {}
                 /\ pipeline'.publish_calls = pipeline.publish_calls
                 /\ SamePayload(pipeline'.run.publish_payload, pipeline.run.publish_payload)
       /\ (DOMAIN last'.ret.publisher # {} /\ last'.ret.publisher.raised = "none")
              => SamePayload(pipeline'.run.publish_payload, last'.ret.publisher.payload)
       /\ last'.ret.returned
              => SamePayload(last'.ret.result.publish, pipeline'.run.publish_payload)
       /\ pipeline.run.status = "completed"
              => /\ last'.ret.stages = <<>>
                 /\ last'.ret.returned
                 /\ pipeline'.run = pipeline.run]_vars

\* A run whose first publish attempt raised, resumed to completion by the
\* second call and asked for again by the third.
C24_Witness ==
    /\ last.op = "process"
    /\ calls = 3
    /\ pipeline.publish_calls = 2
    /\ pipeline.run.status = "completed"
    /\ pipeline.run.attempts = 2
    /\ DOMAIN pipeline.run.publish_payload # {}
    /\ last.ret.returned
    /\ last.ret.stages = <<>>

(***************************************************************************)
(* main.run_loop and main.run_cycle.                                       *)
(*                                                                         *)
(* loop.log is what the run has done so far, in order: <<k, step>> when    *)
(* step of the k-th run_cycle call is run, <<k, "sleep">> when sleep_fn is *)
(* called after k cycles.  max_cycles = None is has_max = FALSE.           *)
(***************************************************************************)
MaxLoopCycles == 3    \* cycles a run_loop call is followed for

\* The tests at the foot of run_loop's while body, once the cycle's summary is
\* appended to results: break ("returned") or go on to sleep_fn ("sleep").
run_loop_after_cycle_breaks_late(once, has_max, max_cycles, len_results) ==
    IF once THEN "returned"
    ELSE IF has_max /\ len_results > max_cycles THEN "returned"
    ELSE "sleep"

run_loop_after_cycle(once, has_max, max_cycles, len_results) ==
    IF once THEN "returned"
    ELSE IF has_max /\ len_results >= max_cycles THEN "returned"
    ELSE "sleep"

\* run_cycle's steps list, in the order its for loop runs it.
steps_publish_first ==
    <<"publish", "fetch-signals", "generate-candidates", "validate-candidates",
      "collect-analytics", "adaptive-loop-updates">>

steps ==
    <<"fetch-signals", "generate-candidates", "validate-candidates",
      "publish", "collect-analytics", "adaptive-loop-updates">>

\* run_loop(config, ..., sleep_fn=sleep_fn, max_cycles=max_cycles) is called.
InitLoop ==
    /\ arms = <<>>
    /\ epsilon = 20000
    /\ last = NoCall
    /\ imp = NoImport
    /\ state_repo = FALSE
    /\ repo = <<>>
    /\ briefs = <<>>
    /\ mc = ModeIdle
    /\ opt_weights = objective_weights
    /\ publisher = NoPublisher
    /\ client = <<>>
    /\ coord = NoCoordinator
    /\ calls = 0
    /\ pipeline = NoPipeline
    /\ \E once \in BOOLEAN, interval_seconds \in {5, 900}, has_max \in BOOLEAN,
          max_cycles \in 0 .. MaxLoopCycles :
           /\ ~has_max => max_cycles = 0
           /\ loop = [present |-> TRUE, pc |-> "cycle", results |-> 0, once |-> once,
                      has_max |-> has_max, max_cycles |-> max_cycles,
                      interval_seconds |-> interval_seconds,
                      step |-> 0, sleep_calls |-> <<>>, log |-> <<>>]

\* run_cycle runs its next step: the step function returns or raises; after
\* the sixth step the summary is appended to results and run_loop decides
\* whether to break.
RunStep ==
    LET k == loop.results + 1
        entered == [loop EXCEPT !.log = Append(@, <<k, steps[loop.step + 1]>>)]
    IN  /\ loop.present
        /\ loop.pc = "cycle"
        /\ loop.results < MaxLoopCycles
        /\ \E step_fn \in {"returns", "raises"} :
               loop' = IF step_fn = "raises"
                       THEN [entered EXCEPT !.pc = "raised"]
                       ELSE IF loop.step + 1 < Len(steps)
                       THEN [entered EXCEPT !.step = @ + 1]
                       ELSE [entered EXCEPT
                                 !.step = 0,
                                 !.results = k,
                                 !.pc = run_loop_after_cycle(loop.once, loop.has_max,
                                                             loop.max_cycles, k)]
        /\ UNCHANGED <<arms, epsilon, last, imp, state_repo, repo, briefs, mc,
                       opt_weights, publisher, client, coord, calls, pipeline>>

\* sleep_fn(config.interval_seconds)
Sleep ==
    /\ loop.present
    /\ loop.pc = "sleep"
    /\ loop' = [loop EXCEPT !.pc = "cycle",
                            !.sleep_calls = Append(@, loop.interval_seconds),
                            !.log = Append(@, <<loop.results, "sleep">>)]
    /\ UNCHANGED <<arms, epsilon, last, imp, state_repo, repo, briefs, mc,
                   opt_weights, publisher, client, coord, calls, pipeline>>

SpecLoop == InitLoop /\ [][RunStep \/ Sleep]_vars

\* run_loop is one thread of control that keeps running until it returns or
\* an exception leaves it.
FairSpecLoop == SpecLoop /\ WF_vars(RunStep \/ Sleep)

(***************************************************************************)
(* Claims about run_loop.                                                  *)
(***************************************************************************)
StepOrder ==
    <<"fetch-signals", "generate-candidates", "validate-candidates",
      "publish", "collect-analytics", "adaptive-loop-updates">>

\* The log of n whole cycles with a sleep between consecutive cycles: entry
\* 7(k-1)+j is step j of cycle k for j in 1..6, entry 7k is the sleep after
\* cycle k.
WholeCyclesLog(n) ==
    [i \in 1 .. (7 * n - 1) |->
        IF i % 7 = 0 THEN <<i \div 7, "sleep">>
        ELSE <<(i \div 7) + 1, StepOrder[i % 7]>>]

LoopCovered == loop.once \/ (loop.has_max /\ loop.max_cycles >= 1)

CyclesDue == IF loop.once THEN 1 ELSE loop.max_cycles

\* C25: with config.once run_loop runs exactly one cycle and never calls
\* sleep_fn; otherwise, with max_cycles = n >= 1, it ends after exactly n
\* cycles having called sleep_fn(interval_seconds) exactly n - 1 times, once
\* between consecutive cycles and never after the last one.  Unless a step
\* raises, the call does end.
C25_CyclesAndSleeps ==
    /\ []((loop.pc = "returned" /\ LoopCovered) =>
              /\ loop.results = CyclesDue
              /\ loop.sleep_calls = [i \in 1 .. (CyclesDue - 1) |-> loop.interval_seconds]
              /\ loop.log = WholeCyclesLog(CyclesDue))
    /\ []((loop.pc = "sleep") => ~loop.once /\ (loop.has_max => loop.results < loop.max_cycles))
    /\ (LoopCovered ~> loop.pc \in {"returned", "raised"})

C25_Witness ==
    /\ loop.pc = "returned"
    /\ ~loop.once
    /\ loop.has_max
    /\ loop.max_cycles = 3
    /\ loop.results = 3
    /\ loop.sleep_calls = <<900, 900>>

\* C26: cycles never overlap: every cycle runs its steps in the fixed order
\* fetch-signals, generate-candidates, validate-candidates, publish,
\* collect-analytics, adaptive-loop-updates, and cycle k+1 starts no step
\* before the adaptive-loop-updates step of cycle k has returned.
C26_CyclesNeverOverlap ==
    loop.present =>
        \A i \in 1 .. Len(loop.log) :
            LET e == loop.log[i]
                StepsOf(c) == SelectSeq(loop.log, LAMBDA x : x[1] = c /\ x[2] # "sleep")
            IN  e[2] # "sleep" =>
                    \* the steps of e's cycle so far are a prefix of the fixed order
                    /\ Len(StepsOf(e[1])) <= Len(StepOrder)
                    /\ \A j \in 1 .. Len(StepsOf(e[1])) : StepsOf(e[1])[j][2] = StepOrder[j]
                    \* every step of an earlier cycle precedes e, and that cycle is whole
                    /\ \A j \in 1 .. Len(loop.log) :
                           (loop.log[j][2] # "sleep" /\ loop.log[j][1] < e[1]) => j < i
                    /\ \A c \in 1 .. (e[1] - 1) :
                           \E j \in 1 .. (i - 1) : loop.log[j] = <<c, "adaptive-loop-updates">>

C26_Witness ==
    /\ loop.present
    /\ loop.results = 1
    /\ loop.step = 2
    /\ Len(loop.log) = 9
    /\ loop.log[6] = <<1, "adaptive-loop-updates">>
    /\ loop.log[8] = <<2, "fetch-signals">>

(***************************************************************************)
(* Cold start: one optimizer with no arm pulled yet, driven by rounds of   *)
(* choose_archetype(candidates) followed by register_result on the arm     *)
(* returned, always with the same distinct candidates.  last.ret.choices   *)
(* is the sequence of arms returned so far.                                *)
(***************************************************************************)
MaxRounds == 4    \* rounds of choose_archetype + register_result in a run

InitColdStart ==
    /\ arms = <<>>
    /\ epsilon \in EpsValues
    /\ \E candidates \in SeqsUpTo({<<"a">>, <<"b">>, <<"c">>}, 3) :
           /\ candidates # <<>>
           /\ \A i, j \in 1 .. Len(candidates) : i # j => candidates[i] # candidates[j]
           /\ last = Call("run", [candidates |-> candidates], [choices |-> <<>>])
    /\ imp = NoImport
    /\ state_repo = FALSE
    /\ repo = <<>>
    /\ briefs = <<>>
    /\ mc = ModeIdle
    /\ opt_weights = objective_weights
    /\ publisher = NoPublisher
    /\ client = <<>>
    /\ coord = NoCoordinator
    /\ calls = 0
    /\ pipeline = NoPipeline
    /\ loop = NoLoop

\* arm = choose_archetype(candidates); register_result(arm, metrics)
ChooseThenRegister ==
    /\ calls < MaxRounds
    /\ \E r \in Draws, m \in MetricsSet :
       \E out \in choose_archetype(arms, epsilon, last.args.candidates, r) :
           /\ out.error = "none"
           /\ arms' = register_result(TouchAll(arms, last.args.candidates), out.chosen,
                                      score(m, objective_weights))
           /\ last' = Call("run", [candidates |-> last.args.candidates],
                           [choices |-> Append(last.ret.choices, out.chosen)])
    /\ calls' = calls + 1
    /\ UNCHANGED <<epsilon, imp, state_repo, repo, briefs, mc, opt_weights,
                   publisher, client, coord, pipeline, loop>>

SpecColdStart == InitColdStart /\ [][ChooseThenRegister]_vars

\* C28: every arm is tried once before any is tried twice: from a state
\* where all n distinct candidates have pulls = 0, the first n choices of a
\* run of choose_archetype + register_result rounds are pairwise distinct,
\* whatever epsilon_exploration is.
C28_FirstChoicesDistinct ==
    last.op = "run" =>
        LET n == Len(last.args.candidates)
            choices == last.ret.choices
        IN  \A i, j \in 1 .. Len(choices) :
                (i < j /\ j <= n) => choices[i] # choices[j]

\* Three candidates, always exploring: each was chosen once in the first
\* three rounds, and the fourth round chose one of them again.
C28_Witness ==
    /\ last.op = "run"
    /\ epsilon = 100000
    /\ Len(last.args.candidates) = 3
    /\ Len(last.ret.choices) = 4
    /\ \A i \in 1 .. 3 : Stats(arms, last.args.candidates[i]).pulls >= 1
    /\ last.ret.choices[4] = last.ret.choices[1]

(***************************************************************************)
(* The mode controller in a loop: the caller passes each decision's mode   *)
(* and explore_coef to the next decide call.  last.ret.modes is the        *)
(* sequence of modes so far, the starting mode first.                      *)
(***************************************************************************)
MaxDecides == 4    \* decisions fed back in a run

InitModeFeedback ==
    /\ arms = <<>>
    /\ epsilon = 20000
    /\ imp = NoImport
    /\ state_repo = FALSE
    /\ repo = <<>>
    /\ briefs = <<>>
    /\ \E m \in Modes, i \in {x \in AllModeInputs :
                                 x.monetization_drift = 0 /\ x.drawdown_24h = 12345} :
           /\ mc = [pc |-> "call", current_mode |-> m, inputs |-> i, explore_coef |-> 20000]
           /\ last = Call("decide", NoArgs, [modes |-> <<m>>])
    /\ opt_weights = objective_weights
    /\ publisher = NoPublisher
    /\ client = <<>>
    /\ coord = NoCoordinator
    /\ calls = 0
    /\ pipeline = NoPipeline
    /\ loop = NoLoop

\* The next call: current_mode=decision.mode, explore_coef=decision.explore_coef.
FeedBack ==
    /\ mc.pc = "done"
    /\ calls < MaxDecides
    /\ \E i \in {x \in AllModeInputs : x.monetization_drift = 0 /\ x.drawdown_24h = 12345} :
           mc' = [pc |-> "call", current_mode |-> mc.decision.mode, inputs |-> i,
                  explore_coef |-> mc.decision.explore_coef]
    /\ last' = Call("decide", NoArgs, [modes |-> Append(last.ret.modes, mc.decision.mode)])
    /\ calls' = calls + 1
    /\ UNCHANGED <<arms, epsilon, imp, state_repo, repo, briefs, opt_weights,
                   publisher, client, coord, pipeline, loop>>

SpecModeFeedback == InitModeFeedback /\ [][Decide \/ FeedBack]_vars

ModeChangeAllowed(from, to) ==
    \/ from = to
    \/ from = "exploit" /\ to = "explore"
    \/ from = "explore" /\ to = "mutation"
    \/ to = "chaos"
    \/ from = "chaos" /\ to = "exploit"

\* C29: with each decision's mode fed back as the next current_mode, the
\* only mode changes are exploit -> explore, explore -> mutation, any mode
\* -> chaos and chaos -> exploit: the mode stays one of the four, mutation
\* is left only for chaos and nothing goes from explore or mutation
\* straight to exploit.
C29_ModeChanges ==
    (mc.pc \in {"call", "done"} /\ last.op = "decide") =>
        LET modes == IF mc.pc = "done" THEN Append(last.ret.modes, mc.decision.mode)
                     ELSE last.ret.modes
        IN  /\ \A i \in 1 .. Len(modes) : modes[i] \in Modes
            /\ \A i \in 1 .. (Len(modes) - 1) :
                   /\ ModeChangeAllowed(modes[i], modes[i + 1])
                   /\ modes[i] = "mutation" => modes[i + 1] \in {"mutation", "chaos"}
                   /\ modes[i] \in {"explore", "mutation"} => modes[i + 1] # "exploit"

\* A run through all four modes and back.
C29_Witness ==
    /\ last.op = "decide"
    /\ last.ret.modes = <<"exploit", "explore", "mutation", "chaos", "exploit">>

(***************************************************************************)
(* Claims about the markers the coordinator writes.                        *)
(***************************************************************************)
IsArchiveKey(k) == k # <<>> /\ Head(k) = "archive"

\* k2 is winner::E::v for the E of the archive key k = archive::E.
IsWinnerKeyOf(k2, k) ==
    /\ Len(k2) > Len(k)
    /\ Head(k2) = "winner"
    /\ SubSeq(k2, 2, Len(k)) = Tail(k)

\* C30: through process_after_analytics the marker archive::{experiment_id}
\* is written only in a cycle whose promote_winner returned promoted=True,
\* and only after that cycle's winner marker was written; so the repository
\* never holds archive::E without some winner::E::v.
C30_ArchiveOnlyAfterWinner ==
    /\ \A k \in DOMAIN repo :
           IsArchiveKey(k) => \E k2 \in DOMAIN repo : IsWinnerKeyOf(k2, k)
    /\ CycleCalled =>
           \A i \in 1 .. Len(last.wrote) :
               IsArchiveKey(last.wrote[i].arm_key) =>
                   LET exp == last.args.analytics_payload.experiment
                       result == promote_winner(last.args.arms, state_repo, exp.experiment_id,
                                                exp.variants,
                                                coord.min_sample_size_for_winner).result
                   IN  /\ result.promoted
                       /\ last.wrote[i].arm_key = <<"archive">> \o exp.experiment_id
                       /\ \E j \in 1 .. (i - 1) :
                              last.wrote[j].arm_key =
                                  <<"winner">> \o exp.experiment_id \o result.winner

\* A cycle that promoted variant a of e1 and archived e1; an earlier cycle of
\* the run had found no winner.
C30_Witness ==
    /\ CycleCalled
    /\ calls = 2
    /\ Len(last.wrote) = 2
    /\ last.wrote[2].arm_key = <<"archive", "e1">>
    /\ <<"archive", "e1">> \in DOMAIN repo
    /\ <<"winner", "e1", "a">> \in DOMAIN repo
    /\ <<"archive", "e1">> \notin DOMAIN last.args.repo

(***************************************************************************)
(* Claims about exploitation and about the arm statistics.                 *)
(***************************************************************************)
Exploiting ==
    /\ last.op = "choose_archetype"
    /\ last.args.candidates # <<>>
    /\ ~HasUnseen(arms, last.args.candidates)
    /\ ~(last.args.r < epsilon)

AvgOf(i) == avg_reward(Stats(arms, last.args.candidates[i]))

\* C31: when every candidate has pulls > 0 and the exploration draw is not
\* taken (always so when epsilon_exploration = 0), choose_archetype returns
\* the candidate with the highest avg_reward = reward_sum / pulls, and of
\* the candidates tied for the highest the earliest in the sequence.
C31_ExploitsFirstBest ==
    Exploiting =>
        /\ last.ret.error = "none"
        /\ \E i \in 1..Len(last.args.candidates) :
               /\ last.ret.chosen = last.args.candidates[i]
               /\ AvgOf(i).den = Stats(arms, last.args.candidates[i]).pulls
               /\ AvgOf(i).num = Stats(arms, last.args.candidates[i]).reward_sum
               /\ \A j \in 1..Len(last.args.candidates) : ~AvgLess(AvgOf(i), AvgOf(j))
               /\ \A j \in 1..(i - 1) : AvgLess(AvgOf(j), AvgOf(i))

\* Two candidates with the same avg_reward from different pulls and sums:
\* the first of the sequence is returned.
C31_Witness ==
    /\ Exploiting
    /\ Len(last.args.candidates) = 2
    /\ last.args.candidates[1] # last.args.candidates[2]
    /\ Stats(arms, last.args.candidates[1]).pulls = 2
    /\ Stats(arms, last.args.candidates[2]).pulls = 1
    /\ ~AvgLess(AvgOf(1), AvgOf(2))
    /\ ~AvgLess(AvgOf(2), AvgOf(1))
    /\ last.ret.chosen = last.args.candidates[1]

\* A fresh optimizer under a lifecycle manager constructed without a state
\* repository (none of the operations below reads one), driven by the
\* optimizer's and the manager's operations other than import_arm_state.
InitFresh ==
    /\ arms = <<>>
    /\ epsilon \in EpsValues
    /\ last = NoCall
    /\ imp = NoImport
    /\ state_repo = FALSE
    /\ repo = <<>>
    /\ briefs = <<>>
    /\ mc = ModeIdle
    /\ opt_weights = objective_weights
    /\ publisher = NoPublisher
    /\ client = <<>>
    /\ coord = NoCoordinator
    /\ calls = 0
    /\ pipeline = NoPipeline
    /\ loop = NoLoop

SpecFresh ==
    InitFresh /\ [][Choose \/ Register \/ Export \/ AssignVariant \/ RegisterOutcome
                           \/ PromoteWinner]_vars

\* The arm key a register_result / register_outcome step names.
RegisteredArm ==
    IF last'.op = "register_result" THEN last'.args.archetype
    ELSE _arm_key(last'.args.experiment_id, last'.args.variant)

\* C32: on a fresh optimizer (no import_arm_state), over any sequence of
\* choose_archetype, register_result, export_arm_state, assign_variant,
\* register_outcome and promote_winner calls, each arm's pulls is the number
\* of register calls made for its key and its reward_sum the sum of their
\* rewards: every arm starts at 0 / 0, a register call adds one pull and its
\* reward to the named arm and changes no other arm, and choosing, exporting
\* and promoting change no arm's pulls or reward_sum.
C32_PullsCountRegisters ==
    /\ \A k \in ArmKeys : Stats(arms, k) = ArmStats(0, 0)
    /\ [][IF last'.op \in {"register_result", "register_outcome"}
          THEN \A k \in ArmKeys :
                   Stats(arms', k) =
                       IF k = RegisteredArm
                       THEN ArmStats(Stats(arms, k).pulls + 1,
                                     Stats(arms, k).reward_sum + last'.ret.reward)
                       ELSE Stats(arms, k)
          ELSE /\ last'.op \in {"choose_archetype", "export_arm_state", "assign_variant",
                                "promote_winner"}
               /\ \A k \in ArmKeys : Stats(arms', k) = Stats(arms, k)]_vars

\* A promote_winner after both arms were registered, one of them twice,
\* through the optimizer and through the manager.
C32_Witness ==
    /\ last.op = "promote_winner"
    /\ last.ret.promoted
    /\ \E k1, k2 \in ArmKeys :
           /\ k1 # k2
           /\ Stats(arms, k1) = ArmStats(2, 35)
           /\ Stats(arms, k2) = ArmStats(1, 10)

(***************************************************************************)
(* Claims about the sleeps of one publish call. A sleep is recorded in     *)
(* units of base_backoff_seconds.                                          *)
(***************************************************************************)
\* The attempts of the last publish: its calls of client.publish_post.
AttemptsMade == last.ret.client_calls

InitExploration ==
    /\ arms = <<>>
    /\ epsilon \in {0, 20000, 100000}
    /\ last = NoCall
    /\ imp = NoImport
    /\ state_repo = FALSE
    /\ repo = <<>>
    /\ briefs = <<>>
    /\ mc = ModeIdle
    /\ opt_weights = Weights(objective_weights)
    /\ publisher = NoPublisher
    /\ client = <<>>
    /\ \E flags \in AdaptiveLoopFlags :
           coord = [present |-> TRUE, min_sample_size_for_winner |-> 2,
                    flags |-> flags, decision_sink |-> FALSE]
    /\ calls = 0
    /\ pipeline = NoPipeline
    /\ loop = NoLoop

\* A cycle in which the learning loop writes epsilon_exploration after the mode
\* controller has.
ProcessAfterScores_learning_last ==
    /\ calls < MaxAnalytics
    /\ \E scores \in {<<>>} \cup {[observed_scores |-> <<o>>, predicted_scores |-> <<10>>] :
                                      o \in {10, 30}},
          coef \in {<<>>} \cup {[explore_coef |-> c] : c \in {-10000, 20003, 120000}},
          inputs \in {<<>>,
                      [mode_inputs |-> ModeInputs(50, 50, 0, -100000, 0, 12, 500000, 50)],
                      [mode_inputs |-> ModeInputs(50, 50, 0, 30000, 0, 12, 0, 50)]} :
       LET analytics_payload == scores @@ coef @@ inputs
       IN  \E out \in process_after_analytics(analytics_payload, <<"trace-1">>, coord.flags,
                                              coord.decision_sink, epsilon, opt_weights,
                                              arms, state_repo,
                                              coord.min_sample_size_for_winner) :
               /\ epsilon' = IF ~loop_enabled(coord.flags, "enable_learning_loop")
                              THEN out.epsilon
                              ELSE LearningLoopUpdater_apply(
                                       IF "observed_scores" \in DOMAIN analytics_payload
                                       THEN analytics_payload.observed_scores ELSE <<>>,
                                       IF "predicted_scores" \in DOMAIN analytics_payload
                                       THEN analytics_payload.predicted_scores ELSE <<>>,
                                       out.epsilon).epsilon
               /\ opt_weights' = out.weights
               /\ repo' = upsert_arm_states(repo, out.wrote)
               /\ last' = CallW("process_after_analytics",
                                [arms |-> arms, repo |-> repo,
                                 objective_weights |-> opt_weights,
                                 epsilon_exploration |-> epsilon, trace_id |-> <<"trace-1">>,
                                 analytics_payload |-> analytics_payload],
                                out, out.wrote)
    /\ calls' = calls + 1
    /\ UNCHANGED <<arms, imp, state_repo, briefs, mc, publisher, client, coord, pipeline, loop>>

\* process_after_analytics(analytics_payload, trace_id="trace-1") with scores
\* whose mean absolute error is 0.2 or 0, with an explore_coef below,
\* inside and above [0.05, 0.8], and with mode_inputs that lower or raise the
\* coefficient as far as they can, each present or not.
ProcessAfterScores ==
    /\ calls < MaxAnalytics
    /\ \E scores \in {<<>>} \cup {[observed_scores |-> <<o>>, predicted_scores |-> <<10>>] :
                                      o \in {10, 30}},
          coef \in {<<>>} \cup {[explore_coef |-> c] : c \in {-10000, 20003, 120000}},
          inputs \in {<<>>,
                      [mode_inputs |-> ModeInputs(50, 50, 0, -100000, 0, 12, 500000, 50)],
                      [mode_inputs |-> ModeInputs(50, 50, 0, 30000, 0, 12, 0, 50)]} :
       LET analytics_payload == scores @@ coef @@ inputs
       IN  \E out \in process_after_analytics(analytics_payload, <<"trace-1">>, coord.flags,
                                              coord.decision_sink, epsilon, opt_weights,
                                              arms, state_repo,
                                              coord.min_sample_size_for_winner) :
               /\ epsilon' = out.epsilon
               /\ opt_weights' = out.weights
               /\ repo' = upsert_arm_states(repo, out.wrote)
               /\ last' = CallW("process_after_analytics",
                                [arms |-> arms, repo |-> repo,
                                 objective_weights |-> opt_weights,
                                 epsilon_exploration |-> epsilon, trace_id |-> <<"trace-1">>,
                                 analytics_payload |-> analytics_payload],
                                out, out.wrote)
    /\ calls' = calls + 1
    /\ UNCHANGED <<arms, imp, state_repo, briefs, mc, publisher, client, coord, pipeline, loop>>

SpecExploration == InitExploration /\ [][ProcessAfterScores]_vars

(***************************************************************************)
(* Claims about epsilon_exploration across adaptive cycles.                *)
(***************************************************************************)
\* C34: starting from epsilon_exploration in [0, 1], after any sequence of
\* process_after_analytics calls with any flags and any payloads,
\* epsilon_exploration is still in [0, 1].
C34_EpsilonStaysInUnitInterval == 0 <= epsilon /\ epsilon <= 100000

\* C34 witness: the learning loop alone has moved an epsilon_exploration that
\* started at an end of [0, 1], and a second call has been made after it.
C34_Witness ==
    /\ CycleCalled
    /\ calls = 2
    /\ coord.flags["enable_learning_loop"]
    /\ ~coord.flags["enable_mode_controller"]
    /\ last.args.epsilon_exploration \in {5000, 98000}
    /\ epsilon # last.args.epsilon_exploration

\* The payload of the last cycle, what it supplies under a key, and the
\* explore_coef values the mode controller can decide on from a coefficient.
CyclePayload == last.args.analytics_payload

Supplied(key, default) == IF key \in DOMAIN CyclePayload THEN CyclePayload[key] ELSE default

DecidedFrom(explore_coef) ==
    {d.explore_coef :
        d \in decide(Supplied("current_mode", "exploit"), explore_coef,
                     Supplied("mode_inputs", ModeInputs(50, 50, 0, 0, 0, 12, 0, 50)))}

\* The place of a sub-loop in the order in which the last cycle entered them.
EnteredAt(name) == CHOOSE i \in 1..Len(last.ret.order) : last.ret.order[i] = name

\* C35: within one cycle the learning loop writes epsilon_exploration before the
\* mode controller does: after a process_after_analytics call with
\* enable_mode_controller set that returns its updates, epsilon_exploration
\* equals the explore_coef reported under updates["mode_controller"] and lies
\* in [0.05, 0.8]; when the payload supplies explore_coef it is what the mode
\* controller decides from that coefficient, whatever the learning loop did
\* before, and otherwise what it decides from the value the learning loop left.
C35_ModeControllerWritesLast ==
    (CycleCalled /\ coord.flags["enable_mode_controller"] /\ last.ret.raised = "none") =>
        /\ epsilon = last.ret.updates["mode_controller"].explore_coef
        /\ 5000 <= epsilon /\ epsilon <= 80000
        /\ coord.flags["enable_learning_loop"] =>
              /\ EnteredAt("learning_loop") < EnteredAt("mode_controller")
              /\ last.ret.updates["learning_loop"].epsilon_exploration =
                     LearningLoopUpdater_apply(Supplied("observed_scores", <<>>),
                                               Supplied("predicted_scores", <<>>),
                                               last.args.epsilon_exploration).epsilon
        /\ "explore_coef" \in DOMAIN CyclePayload =>
              epsilon \in DecidedFrom(CyclePayload.explore_coef)
        /\ "explore_coef" \notin DOMAIN CyclePayload =>
              epsilon \in DecidedFrom(
                              IF coord.flags["enable_learning_loop"]
                              THEN last.ret.updates["learning_loop"].epsilon_exploration
                              ELSE last.args.epsilon_exploration)

\* C35 witness: in a cycle with both writers enabled the learning loop moved
\* epsilon_exploration and the mode controller then replaced it with what it
\* decided from the payload's explore_coef.
C35_Witness ==
    /\ CycleCalled
    /\ coord.flags["enable_mode_controller"]
    /\ coord.flags["enable_learning_loop"]
    /\ "explore_coef" \in DOMAIN CyclePayload
    /\ last.ret.updates["learning_loop"].epsilon_exploration # last.args.epsilon_exploration
    /\ epsilon # last.ret.updates["learning_loop"].epsilon_exploration
    /\ epsilon = last.ret.updates["mode_controller"].explore_coef

(***************************************************************************)
(* Claims about the floor of the objective weights.                        *)
(***************************************************************************)
\* The weights the last apply nudged: those a delta name of the lookup table
\* maps to.
NudgedWeights ==
    {KPI_TO_WEIGHT[d] : d \in DOMAIN last.args.kpi_deltas \cap DOMAIN KPI_TO_WEIGHT}

\* The total of the weights after the nudges of the last apply and before the
\* division: the starting total plus what each nudge added.
TotalAfterNudges ==
    LET start == last.args.objective_weights
        FromStart(k) == IF k \in DOMAIN start THEN start[k] ELSE Frac(0, 1)
        Nudge(k) ==
            LET d == CHOOSE x \in DOMAIN last.args.kpi_deltas \cap DOMAIN KPI_TO_WEIGHT :
                         KPI_TO_WEIGHT[x] = k
                v == FAdd(IF k \in DOMAIN start THEN start[k] ELSE Frac(1, 100),
                          Frac(IF last.args.kpi_deltas[d] < 0 THEN -3 ELSE 3, 100))
                floored == IF FLess(v, Frac(1, 100)) THEN Frac(1, 100) ELSE v
            IN  FAdd(floored, Frac(-FromStart(k).num, FromStart(k).den))
    IN  FAdd(FSum(start), FSum([k \in NudgedWeights |-> Nudge(k)]))

StartsAtOne == FSum(last.args.objective_weights) = Frac(1, 1)

\* The delta names outside the lookup table made no difference to the last
\* apply: the weights are those the deltas of the table alone give, and the
\* starting weights when there is none.
UnmappedIgnored ==
    LET mapped == DOMAIN last.args.kpi_deltas \cap DOMAIN KPI_TO_WEIGHT
    IN  /\ \A k \in DOMAIN last.args.objective_weights \ NudgedWeights :
               opt_weights[k] = FDiv(last.args.objective_weights[k], TotalAfterNudges)
        /\ mapped = {} => opt_weights = last.args.objective_weights

\* C36 as stated: after apply returns, every weight that received a KPI nudge is
\* at least 0.01 in optimization.objective_weights, for any starting weights
\* summing to 1.0 and any kpi_deltas, and delta names outside the lookup table
\* change no weight's share.
C36_Original ==
    (StrategyApplied /\ StartsAtOne) =>
        /\ \A k \in NudgedWeights : ~FLess(opt_weights[k], Frac(1, 100))
        /\ UnmappedIgnored

\* C36 amended: after apply returns, for any starting weights summing to 1.0 and
\* any kpi_deltas, every weight that received a KPI nudge is at least 0.01
\* divided by the total T the weights had after the nudges and before the
\* renormalisation, hence at least 0.01 whenever T <= 1, and delta names
\* outside the lookup table change no weight's share.
C36_FloorBeforeRenormalisation ==
    (StrategyApplied /\ StartsAtOne) =>
        /\ FLess(Frac(0, 1), TotalAfterNudges)
        /\ \A k \in NudgedWeights :
              /\ ~FLess(opt_weights[k], FDiv(Frac(1, 100), TotalAfterNudges))
              /\ ~FLess(Frac(1, 1), TotalAfterNudges) =>
                     ~FLess(opt_weights[k], Frac(1, 100))
        /\ UnmappedIgnored

\* C36 witness: a weight of 0.01 nudged down was held at 0.01 and, another
\* weight having been nudged up, stored as 0.01 / 1.03, with a delta name
\* outside the lookup table among the deltas.
C36_Witness ==
    /\ StrategyApplied
    /\ StartsAtOne
    /\ "bogus_delta" \in DOMAIN last.args.kpi_deltas
    /\ "likes" \in NudgedWeights
    /\ TotalAfterNudges = Frac(103, 100)
    /\ opt_weights["likes"] = Frac(1, 103)

(***************************************************************************)
(* Claims about the winner markers of one experiment.                      *)
(***************************************************************************)
\* The keys winner::{experiment_id}::{variant} of a table.
WinnerKeys(table, experiment_id) ==
    {k \in DOMAIN table :
        /\ Len(k) > 1 + Len(experiment_id)
        /\ Head(k) = "winner"
        /\ SubSeq(k, 2, 1 + Len(experiment_id)) = experiment_id}

\* C37 as stated: after any sequence of register_outcome and promote_winner
\* calls for one experiment the state repository holds at most one record
\* keyed winner::{experiment_id}::{variant}.
C37_Original ==
    \A e \in ExperimentIds : Cardinality(WinnerKeys(repo, e)) <= 1

\* C37 amended: the state repository holds one record per key
\* winner::{experiment_id}::{variant}; a promote_winner call that promotes
\* upserts the record of its winner and of no other variant, and no call
\* removes a winner record, so the records of the variants promoted by
\* different calls stay side by side.
C37_WinnerMarkersAccumulate ==
    [][\A e \in ExperimentIds :
          LET promoting == /\ last'.op = "promote_winner"
                           /\ last'.args.experiment_id = e
                           /\ last'.ret.promoted
                           /\ state_repo
              marked == IF promoting THEN {<<"winner">> \o e \o last'.ret.winner} ELSE {}
          IN  WinnerKeys(repo', e) = WinnerKeys(repo, e) \cup marked]_vars

\* C37 witness: variant x::b of e1 was promoted while the marker of variant a,
\* promoted by an earlier call, was in the repository; both markers are there.
C37_Witness ==
    /\ last.op = "promote_winner"
    /\ last.ret.promoted
    /\ last.ret.winner = <<"x", "b">>
    /\ WinnerKeys(repo, <<"e1">>) = {<<"winner", "e1", "a">>, <<"winner", "e1", "x", "b">>}

(***************************************************************************)
(* Claims about a pipeline run whose script is rejected.                   *)
(***************************************************************************)
\* The PolicyGuard has rejected the script stored for the run.
ScriptRejected ==
    /\ pipeline.present
    /\ DOMAIN pipeline.run.script_payload # {}
    /\ ~pipeline.run.script_payload.approved

\* C38: a pipeline run whose script the PolicyGuard rejects is never passed to
\* publish_or_schedule: neither the process call that blocks it nor any later
\* process call for the run, which sets the status back to "running", invokes
\* the publisher, and the run never has a publish payload.
C38_RejectedRunNeverPublished ==
    (last.op = "process" /\ ScriptRejected) =>
        /\ DOMAIN last.ret.publisher = {}
        /\ pipeline.publish_calls = 0
        /\ DOMAIN pipeline.run.publish_payload = {}
        /\ DOMAIN pipeline.run.render_payload = {}
        /\ last.ret.returned => DOMAIN last.ret.result.publish = {}

\* C38 witness: the call that blocked the run died before it ended; the next
\* call resumed the blocked run, entered the publish stage with the status
\* "running" and left it without a publisher call.
C38_Witness ==
    /\ last.op = "process"
    /\ ScriptRejected
    /\ last.args.run.status = "blocked"
    /\ pipeline.run.attempts = 2
    /\ "publish" \in Range(last.ret.stages)
    /\ pipeline.publish_calls = 0

====
